---- MODULE Spec2Model ----
(***************************************************************************)
(* A model of point-tiler: the driver and its two tiling workflows         *)
(* (app/src/main.rs), the quadtree aggregator and the voxel decimator      *)
(* (pcd-core/src/pointcloud/decimation/decimator.rs).                      *)
(***************************************************************************)
EXTENDS Integers, Sequences, FiniteSets, Bags, TLC

VARIABLES
    args,           \* the command line and the environment of one run
    pc,             \* where the main thread is
    exit_code,      \* "none" while running, then "ok" or "fail"
    total_size,     \* main's estimate of the input size, in bytes
    workflow,       \* "none", "in_memory" or "external"
    all_points,     \* in_memory_workflow: the points read, then transformed
    fold,           \* the parallel fold/reduce in progress
    tile_map,       \* the reduced map whose entries are still to be written
    tiles,          \* the scratch tile directory: path -> points of the file
    created,        \* how often File::create was called on each tile path
    tile_dir,       \* "none", "exists" or "removed"
    run_dir,        \* "none", "exists" or "removed"
    run_files,      \* the run files written, run_0.bin first
    readers,        \* the reader threads of Stage A
    chan,           \* the chunks queued in the bounded channel
    writer,         \* the chunk the writer loop holds
    sorted_iter,    \* Stage B: the sorted pairs not yet grouped
    agg_z,          \* the next level to aggregate
    out_dir,        \* the output directory
    tile_contents,  \* the TileContent records of the GLBs written
    points_read,    \* how many points next_point has returned
    read_errors,    \* how many failures next_point has returned
    dec,            \* the decimator run on its own
    glb,            \* the GLB encoder run on its own
    call            \* a function of the libraries called on its own

vars == <<args, pc, exit_code, total_size, workflow, all_points, fold, tile_map,
          tiles, created, tile_dir, run_dir, run_files, readers, chan, writer,
          sorted_iter, agg_z, out_dir, tile_contents, points_read, read_errors, dec, glb, call>>

runVars == <<args, pc, exit_code, total_size, workflow, all_points, fold, tile_map,
             tiles, created, tile_dir, run_dir, run_files, readers, chan, writer,
             sorted_iter, agg_z, out_dir, tile_contents, points_read, read_errors>>

----------------------------------------------------------------------------
(* Generic helpers *)

Range(s) == {s[i] : i \in DOMAIN s}

SeqToBag(s) == [e \in Range(s) |-> Cardinality({i \in DOMAIN s : s[i] = e})]

Pow2(n) == 2 ^ n

SetMax(S) == CHOOSE m \in S : \A e \in S : e <= m

\* All orderings (sequences without repetition) of a finite set.
Orderings(S) ==
    {o \in [1..Cardinality(S) -> S] : \A i, j \in DOMAIN o : i # j => o[i] # o[j]}

----------------------------------------------------------------------------
(* 64-bit unsigned words, kept as the set of their one bits, so that the   *)
(* shifts and masks of expand_bits keep their width.                       *)

\* The 64 bits of an i64 n with |n| < 2^31: two's complement, sign-extended;
\* `as u64` leaves them as they are.
i64(n) ==
    {i \in 0..30 : (n \div Pow2(i)) % 2 = 1} \cup (IF n < 0 THEN 31..63 ELSE {})

\* A mutant: the offset is left out.
wrapping_add_nothing(x, k) == x

\* x.wrapping_add(1 << k) on the 64 bits of x: the carry runs up from bit k
\* and is lost beyond bit 63.
wrapping_add_shl(x, k) ==
    LET free == {i \in k..63 : i \notin x}
    IN  IF free = {} THEN {i \in x : i < k}
        ELSE LET m == CHOOSE i \in free : \A j \in free : i <= j
             IN  (x \ (k..(m - 1))) \cup {m}

shl(v, k) == {b + k : b \in {c \in v : c + k <= 63}}

u64_less(a, b) ==
    /\ a # b
    /\ SetMax((a \ b) \cup (b \ a)) \in b

mask_1fffff == 0..20
mask_1f00000000ffff == (0..15) \cup (48..52)
mask_1f0000ff0000ff == (0..7) \cup (24..31) \cup (48..52)
mask_100f00f00f00f00f ==
    (0..3) \cup (12..15) \cup (24..27) \cup (36..39) \cup (48..51) \cup {60}
mask_10c30c30c30c30c3 ==
    UNION {{6 * k, 6 * k + 1} : k \in 0..9} \cup {60}
mask_1249249249249249 == {3 * k : k \in 0..20}

expand_bits(v) ==
    LET v0 == v \cap mask_1fffff
        v1 == (v0 \cup shl(v0, 32)) \cap mask_1f00000000ffff
        v2 == (v1 \cup shl(v1, 16)) \cap mask_1f0000ff0000ff
        v3 == (v2 \cup shl(v2, 8)) \cap mask_100f00f00f00f00f
        v4 == (v3 \cup shl(v3, 4)) \cap mask_10c30c30c30c30c3
        v5 == (v4 \cup shl(v4, 2)) \cap mask_1249249249249249
    IN  v5

morton_encode_3d(x, y, z) ==
    LET ux == wrapping_add_shl(x, 20)
        uy == wrapping_add_shl(y, 20)
        uz == wrapping_add_shl(z, 20)
    IN  expand_bits(ux) \cup shl(expand_bits(uy), 1) \cup shl(expand_bits(uz), 2)

----------------------------------------------------------------------------
(* Tile keys: zoom-x-y from longitude and latitude, the Hilbert id of a    *)
(* tile and the path of its file.                                          *)

\* The Web-Mercator row of a latitude in 1/1024 of the map's height, latitudes
\* beyond the Mercator bounds clamped; tabulated at the latitudes in use.
MercatorY1024(lat) ==
    CASE lat >= 86 -> 0
      [] lat = 70 -> 229
      [] lat = 45 -> 368
      [] lat = 0 -> 512
      [] lat = -45 -> 655
      [] lat = -70 -> 794
      [] lat <= -86 -> 1023

\* tiling::scheme::zxy_from_lng_lat, on whole degrees: the longitude wraps at
\* +-180, the latitude is clamped.
zxy_from_lng_lat(z, lng, lat) ==
    LET wrapped == (lng + 180) % 360
    IN  <<z, (wrapped * Pow2(z)) \div 360, (MercatorY1024(lat) * Pow2(z)) \div 1024>>

\* One level of the Hilbert curve's rotation of (x, y) in a square of side n.
hilbert_rot(n, x, y, rx, ry) ==
    IF ry = 0
    THEN IF rx = 1 THEN <<n - 1 - y, n - 1 - x>> ELSE <<y, x>>
    ELSE <<x, y>>

\* The distance along the Hilbert curve of cell (x, y), s the current half side.
RECURSIVE xy_to_hilbert(_, _, _, _)
xy_to_hilbert(n, s, x, y) ==
    IF s = 0 THEN 0
    ELSE LET rx == IF (x \div s) % 2 = 1 THEN 1 ELSE 0
             ry == IF (y \div s) % 2 = 1 THEN 1 ELSE 0
             quadrant == IF rx = 1 THEN 3 - ry ELSE ry
             r == hilbert_rot(n, x, y, rx, ry)
         IN  s * s * quadrant + xy_to_hilbert(n, s \div 2, r[1], r[2])

\* The cell at distance t along the Hilbert curve, built up from side s = 1.
RECURSIVE hilbert_to_xy(_, _, _, _, _)
hilbert_to_xy(n, s, t, x, y) ==
    IF s >= n THEN <<x, y>>
    ELSE LET rx == (t \div 2) % 2
             ry == IF rx = 1 THEN 1 - (t % 2) ELSE t % 2
             r == hilbert_rot(s, x, y, rx, ry)
         IN  hilbert_to_xy(n, 2 * s, t \div 4, r[1] + s * rx, r[2] + s * ry)

\* The number of tiles of the zoom levels below z: (4^z - 1) / 3.
hilbert_base(z) == (Pow2(2 * z) - 1) \div 3

\* TileIdMethod::Hilbert.zxy_to_id
zxy_to_id(z, x, y) ==
    hilbert_base(z) + xy_to_hilbert(Pow2(z), Pow2(z) \div 2, x, y)

\* TileIdMethod::Hilbert.id_to_zxy
id_to_zxy(tile_id) ==
    LET z == CHOOSE k \in 0..15 : hilbert_base(k) <= tile_id /\ tile_id < hilbert_base(k + 1)
        xy == hilbert_to_xy(Pow2(z), 1, tile_id - hilbert_base(z), 0, 0)
    IN  <<z, xy[1], xy[2]>>

\* format!("{}", n): the decimal digits of n, most significant first.
RECURSIVE to_decimal(_)
to_decimal(n) == IF n < 10 THEN <<n>> ELSE Append(to_decimal(n \div 10), n % 10)

\* str::parse of a digit string.
RECURSIVE parse_decimal(_)
parse_decimal(digits) ==
    IF Len(digits) = 0 THEN 0
    ELSE 10 * parse_decimal(SubSeq(digits, 1, Len(digits) - 1)) + digits[Len(digits)]

\* format!("{}/{}/{}.bin", z, x, y): the path as its three components.
tile_path(z, x, y) == <<to_decimal(z), to_decimal(x), to_decimal(y)>>

extract_tile_coords(file_path) ==
    <<parse_decimal(file_path[1]), parse_decimal(file_path[2]), parse_decimal(file_path[3])>>

----------------------------------------------------------------------------
(* Input files and the streaming point readers.                            *)

\* A record of a file that the reader cannot decode.
Bad == [bad |-> TRUE]

ReaderKind(ext) == IF ext \in {"las", "laz"} THEN "las" ELSE "csv"

\* A mutant: past the last file the reader starts over from the first one.
open_next_file_rewinding(kind, r) ==
    IF r.current_file_index < Len(r.files)
    THEN [res |-> "ok", reader |-> [r EXCEPT !.current_file_index = @ + 1,
                                             !.open = TRUE, !.pos = 0]]
    ELSE [res |-> "ok", reader |-> [r EXCEPT !.current_file_index = 0, !.open = FALSE]]

\* LasPointReader::open_next_file and CsvPointReader::open_next_file.
open_next_file(kind, r) ==
    IF r.current_file_index < Len(r.files)
    THEN LET file == r.files[r.current_file_index + 1]
             next == [r EXCEPT !.current_file_index = @ + 1]
         IN  IF file.readable
             THEN [res |-> "ok", reader |-> [next EXCEPT !.open = TRUE, !.pos = 0]]
             ELSE IF kind = "las"
                  THEN [res |-> "panic", reader |-> r]
                  ELSE [res |-> "err", reader |-> next]
    ELSE [res |-> "ok", reader |-> [r EXCEPT !.open = FALSE]]

\* LasPointReader::new and CsvPointReader::new.
unopened_reader(files) ==
    [files |-> files, current_file_index |-> 0, open |-> FALSE, pos |-> 0]

new_reader(kind, files) ==
    IF kind = "las"
    THEN [res |-> "ok", reader |-> unopened_reader(files)]
    ELSE open_next_file(kind, unopened_reader(files))

\* PointReader::next_point: a point, end of stream, a failure, or a panic.
RECURSIVE next_point(_, _)
next_point(kind, r) ==
    IF ~r.open
    THEN LET o == open_next_file(kind, r)
         IN  IF o.res # "ok" THEN [res |-> o.res, point |-> Bad, reader |-> o.reader]
             ELSE IF ~o.reader.open
                  THEN [res |-> "eos", point |-> Bad, reader |-> o.reader]
                  ELSE next_point(kind, o.reader)
    ELSE LET recs == r.files[r.current_file_index].recs
         IN  IF r.pos < Len(recs)
             THEN LET rec == recs[r.pos + 1]
                      next == [r EXCEPT !.pos = @ + 1]
                  IN  IF rec = Bad
                      THEN [res |-> "err", point |-> Bad, reader |-> next]
                      ELSE [res |-> "point", point |-> rec, reader |-> next]
             ELSE next_point(kind, [r EXCEPT !.open = FALSE])

\* while let Ok(Some(p)) = reader.next_point() { points.push(p) }
RECURSIVE read_while_ok(_, _, _)
read_while_ok(kind, r, points) ==
    LET n == next_point(kind, r)
    IN  IF n.res = "point" THEN read_while_ok(kind, n.reader, Append(points, n.point))
        ELSE [res |-> IF n.res = "panic" THEN "panic" ELSE "ok", points |-> points,
              errors |-> IF n.res = "err" THEN 1 ELSE 0]

\* The closure of in_memory_workflow's flat_map, for one file.
read_file(kind, file) ==
    LET n == new_reader(kind, <<file>>)
    IN  IF n.res # "ok" THEN [res |-> "panic", points |-> <<>>, errors |-> 0]
        ELSE read_while_ok(kind, n.reader, <<>>)

\* The flat_map over the files, collected in file order.
RECURSIVE read_files(_, _)
read_files(kind, files) ==
    IF Len(files) = 0 THEN [res |-> "ok", points |-> <<>>, errors |-> 0]
    ELSE LET head == read_file(kind, files[1])
             rest == read_files(kind, Tail(files))
         IN  [res |-> IF head.res = "panic" \/ rest.res = "panic" THEN "panic" ELSE "ok",
              points |-> head.points \o rest.points,
              errors |-> head.errors + rest.errors]

----------------------------------------------------------------------------
(* check_and_get_extension, estimate_total_size and the reprojection.      *)

\* A mutant: the first file's extension stands for all of them.
check_and_get_extension_first(paths) ==
    IF paths = <<>> \/ paths[1].ext \notin {"las", "laz", "csv", "txt"}
    THEN [res |-> "panic", ext |-> ""]
    ELSE [res |-> "ok", ext |-> paths[1].ext]

\* "ok" with the extension, or "panic" as in_memory_workflow's and
\* external_sort_workflow's unwrap and get_extension make it.
check_and_get_extension(paths) ==
    IF \E i \in DOMAIN paths : paths[i].ext = ""
    THEN [res |-> "panic", ext |-> ""]
    ELSE LET extensions == {paths[i].ext : i \in DOMAIN paths}
         IN  IF Cardinality(extensions) > 1 THEN [res |-> "panic", ext |-> ""]
             ELSE IF extensions = {} THEN [res |-> "panic", ext |-> ""]
             ELSE LET ext == CHOOSE e \in extensions : TRUE
                  IN  IF ext \in {"las", "laz", "csv", "txt"}
                      THEN [res |-> "ok", ext |-> ext]
                      ELSE [res |-> "panic", ext |-> ""]

RECURSIVE estimate_total_size(_)
estimate_total_size(paths) ==
    IF Len(paths) = 0 THEN 0 ELSE paths[1].size + estimate_total_size(Tail(paths))

BytesPerMb == 1024 * 1024

\* The reprojection of one point to longitude and latitude in degrees; the
\* source coordinates are in units of 90 and 45 degrees.
Reproject(p) == [x |-> 90 * p.x, y |-> 45 * p.y, z |-> p.z]

transform_points_in_place(points) == [i \in DOMAIN points |-> Reproject(points[i])]

----------------------------------------------------------------------------
(* Maps from a key to a point list, folded and reduced in parallel.        *)

EmptyMap == <<>>

\* A mutant: the points take the place of the entry's points.
entry_append_replacing(map, key, points) ==
    IF key \in DOMAIN map
    THEN [map EXCEPT ![key] = points]
    ELSE map @@ (key :> points)

\* map.entry(key).or_default().append(points)
entry_append(map, key, points) ==
    IF key \in DOMAIN map
    THEN [map EXCEPT ![key] = @ \o points]
    ELSE map @@ (key :> points)

\* A mutant: an entry of b replaces a's entry of the same key.
map_reduce_overwrite(a, b) ==
    [k \in DOMAIN a \cup DOMAIN b |-> IF k \in DOMAIN b THEN b[k] ELSE a[k]]

\* for (k, v) in b { a.entry(k).or_default().append(v) }
map_reduce(a, b) ==
    [k \in DOMAIN a \cup DOMAIN b |->
        (IF k \in DOMAIN a THEN a[k] ELSE <<>>) \o (IF k \in DOMAIN b THEN b[k] ELSE <<>>)]

map_remove(map, key) == [k \in DOMAIN map \ {key} |-> map[k]]

\* The leaf tile of a reprojected point, as its Hilbert id (map_fold).
leaf_tile_id(max_zoom, p) ==
    LET zxy == zxy_from_lng_lat(max_zoom, p.x, p.y)
    IN  zxy_to_id(zxy[1], zxy[2], zxy[3])

\* map_fold of in_memory_workflow.
map_fold(max_zoom, map, p) == entry_append(map, leaf_tile_id(max_zoom, p), <<p>>)

\* A mutant: the parent keeps the child's coordinates.
aggregate_fold_same_coords(z, dir, map, child_file) ==
    LET c == extract_tile_coords(child_file)
    IN  entry_append(map, <<z, c[2], c[3]>>, dir[child_file])

\* The fold closure of aggregate_zoom_level, for one child file.
aggregate_fold(z, dir, map, child_file) ==
    LET c == extract_tile_coords(child_file)
        parent_coords == <<z, c[2] \div 2, c[3] \div 2>>
    IN  entry_append(map, parent_coords, dir[child_file])

\* File::create followed by write_all: the file holds the points given.
write_file(dir, path, points) ==
    [q \in DOMAIN dir \cup {path} |-> IF q = path THEN points ELSE dir[q]]

count_create(count, path) ==
    [q \in DOMAIN count \cup {path} |->
        IF q = path THEN (IF q \in DOMAIN count THEN count[q] ELSE 0) + 1 ELSE count[q]]

\* The paths z/**/*.bin of the tile directory, in path order.
RECURSIVE sort_paths(_)
sort_paths(S) ==
    IF S = {} THEN <<>>
    ELSE LET first == CHOOSE q \in S :
                 \A r \in S : LET a == extract_tile_coords(q)
                                  b == extract_tile_coords(r)
                              IN  a[2] < b[2] \/ (a[2] = b[2] /\ a[3] <= b[3])
         IN  <<first>> \o sort_paths(S \ {first})

get_tile_list_for_zoom(dir, z) ==
    sort_paths({q \in DOMAIN dir : q[1] = to_decimal(z)})

----------------------------------------------------------------------------
(* main: the workflow selector.                                            *)

NoFold == [items |-> <<>>, next |-> 1, accs |-> <<>>]

NoWriter == [holding |-> FALSE, chunk |-> <<>>]

NoCall == [fn |-> "none"]

NoOutDir == [exists |-> FALSE, glbs |-> EmptyMap, glb_files |-> EmptyMap,
             tileset |-> FALSE]

\* The state of a run at the start of main, for a command line a.
StartOfMain(a) ==
    /\ args = a
    /\ pc = "main"
    /\ exit_code = "none"
    /\ total_size = 0
    /\ workflow = "none"
    /\ all_points = <<>>
    /\ fold = NoFold
    /\ tile_map = EmptyMap
    /\ tiles = EmptyMap
    /\ created = EmptyMap
    /\ tile_dir = "none"
    /\ run_dir = "none"
    /\ run_files = <<>>
    /\ readers = <<>>
    /\ chan = <<>>
    /\ writer = NoWriter
    /\ sorted_iter = <<>>
    /\ agg_z = 0
    /\ out_dir = NoOutDir
    /\ tile_contents = <<>>
    /\ points_read = 0
    /\ read_errors = 0

\* A mutant: the process ends without dropping the TempDir handles.
Fail_without_drop ==
    /\ pc' = "done"
    /\ exit_code' = "fail"
    /\ UNCHANGED <<tile_dir, run_dir, tiles, run_files>>

\* The process ends with a failure: a panic, or main returning an Err.
\* The TempDir handles are dropped on the way out.
Fail ==
    /\ pc' = "done"
    /\ exit_code' = "fail"
    /\ tile_dir' = IF tile_dir = "exists" THEN "removed" ELSE tile_dir
    /\ run_dir' = IF run_dir = "exists" THEN "removed" ELSE run_dir
    /\ tiles' = EmptyMap
    /\ run_files' = <<>>

NoFail == UNCHANGED <<exit_code, tile_dir, run_dir, tiles, run_files>>

\* A mutant: an input of exactly the budget's size goes to the external sort.
fits_in_memory_strict(size, max_memory_mb) == size < max_memory_mb * BytesPerMb

\* total_size <= max_memory_bytes
fits_in_memory(size, max_memory_mb) == size <= max_memory_mb * BytesPerMb

\* main up to the choice of the workflow.
Main ==
    /\ pc = "main"
    /\ out_dir' = [out_dir EXCEPT !.exists = TRUE]
    /\ total_size' = estimate_total_size(args.input)
    /\ IF fits_in_memory(total_size', args.max_memory_mb)
       THEN workflow' = "in_memory" /\ pc' = "im_check"
       ELSE workflow' = "external" /\ pc' = "ex_start"
    /\ UNCHANGED <<args, exit_code, all_points, fold, tile_map, tiles, created,
                   tile_dir, run_dir, run_files, readers, chan, writer, sorted_iter,
                   agg_z, tile_contents, points_read, read_errors, dec, glb, call>>

----------------------------------------------------------------------------
(* in_memory_workflow up to the leaf tile files.                           *)

\* check_and_get_extension(..).unwrap(), then the parallel read of the files.
InMemoryRead ==
    /\ pc = "im_check"
    /\ LET checked == check_and_get_extension(args.input)
           read == read_files(ReaderKind(checked.ext), args.input)
       IN  IF checked.res = "panic"
           THEN Fail /\ UNCHANGED <<all_points, points_read, read_errors>>
           ELSE /\ points_read' = points_read + Len(read.points)
                /\ read_errors' = read_errors + read.errors
                /\ IF read.res = "panic"
                   THEN Fail /\ UNCHANGED all_points
                   ELSE /\ all_points' = read.points
                        /\ pc' = "im_transform"
                        /\ NoFail
    /\ UNCHANGED <<args, total_size, workflow, fold, tile_map, created, readers,
                   chan, writer, sorted_iter, agg_z, out_dir, tile_contents, dec, glb, call>>

\* PointTransformer::new and transform_points_in_place on all the points; a
\* projection failure is returned to main.
InMemoryTransform ==
    /\ pc = "im_transform"
    /\ IF args.proj \in {"ok", "fail_geocentric"}
       THEN /\ all_points' = transform_points_in_place(all_points)
            /\ fold' = [items |-> all_points', next |-> 1, accs |-> <<>>]
            /\ pc' = "im_group"
            /\ NoFail
       ELSE Fail /\ UNCHANGED <<all_points, fold>>
    /\ UNCHANGED <<args, total_size, workflow, tile_map, created, readers, chan,
                   writer, sorted_iter, agg_z, out_dir, tile_contents, points_read,
                   read_errors, dec, glb, call>>

\* One point folded by a worker: into the accumulator of the split it works
\* on, or into a new accumulator (map_init) when a new split starts.
InMemoryFold ==
    /\ pc = "im_group"
    /\ fold.next <= Len(fold.items)
    /\ \E fresh \in BOOLEAN :
          /\ fold.accs = <<>> => fresh
          /\ LET p == fold.items[fold.next]
                 n == Len(fold.accs)
             IN  fold' = [fold EXCEPT
                     !.next = @ + 1,
                     !.accs = IF fresh
                              THEN Append(@, map_fold(args.max, EmptyMap, p))
                              ELSE [@ EXCEPT ![n] = map_fold(args.max, @, p)]]
    /\ UNCHANGED <<args, pc, exit_code, total_size, workflow, all_points, tile_map,
                   tiles, created, tile_dir, run_dir, run_files, readers, chan,
                   writer, sorted_iter, agg_z, out_dir, tile_contents, points_read,
                   read_errors, dec, glb, call>>

\* Two neighbouring accumulators reduced into one.
ReduceAt(i) ==
    [fold EXCEPT !.accs =
        SubSeq(@, 1, i - 1) \o <<map_reduce(@[i], @[i + 1])>> \o SubSeq(@, i + 2, Len(@))]

InMemoryReduce ==
    /\ pc = "im_group"
    /\ \E i \in 1..(Len(fold.accs) - 1) : fold' = ReduceAt(i)
    /\ UNCHANGED <<args, pc, exit_code, total_size, workflow, all_points, tile_map,
                   tiles, created, tile_dir, run_dir, run_files, readers, chan,
                   writer, sorted_iter, agg_z, out_dir, tile_contents, points_read,
                   read_errors, dec, glb, call>>

\* The reduce is complete: tile_map is its result; tempdir() for the tiles.
InMemoryGrouped ==
    /\ pc = "im_group"
    /\ fold.next > Len(fold.items)
    /\ Len(fold.accs) <= 1
    /\ tile_map' = IF fold.accs = <<>> THEN EmptyMap ELSE fold.accs[1]
    /\ fold' = NoFold
    /\ all_points' = <<>>
    /\ tile_dir' = "exists"
    /\ pc' = "im_write"
    /\ UNCHANGED <<args, exit_code, total_size, workflow, tiles, created, run_dir,
                   run_files, readers, chan, writer, sorted_iter, agg_z, out_dir,
                   tile_contents, points_read, read_errors, dec, glb, call>>

\* A mutant: the column and the row change places in the path.
leaf_path_swapped(tile_id) ==
    LET zxy == id_to_zxy(tile_id)
    IN  tile_path(zxy[1], zxy[3], zxy[2])

\* The path of the leaf tile file of a Hilbert id.
leaf_path(tile_id) ==
    LET zxy == id_to_zxy(tile_id)
    IN  tile_path(zxy[1], zxy[2], zxy[3])

\* One entry of tile_map written to its leaf tile file by a worker.
InMemoryWriteTile ==
    /\ pc = "im_write"
    /\ \E tile_id \in DOMAIN tile_map :
          /\ tiles' = write_file(tiles, leaf_path(tile_id), tile_map[tile_id])
          /\ created' = count_create(created, leaf_path(tile_id))
          /\ tile_map' = map_remove(tile_map, tile_id)
    /\ UNCHANGED <<args, pc, exit_code, total_size, workflow, all_points, fold,
                   tile_dir, run_dir, run_files, readers, chan, writer, sorted_iter,
                   agg_z, out_dir, tile_contents, points_read, read_errors, dec, glb, call>>

InMemoryWritten ==
    /\ pc = "im_write"
    /\ tile_map = EmptyMap
    /\ agg_z' = args.max - 1
    /\ pc' = "aggregate"
    /\ UNCHANGED <<args, exit_code, total_size, workflow, all_points, fold, tile_map,
                   tiles, created, tile_dir, run_dir, run_files, readers, chan,
                   writer, sorted_iter, out_dir, tile_contents, points_read, read_errors, dec, glb, call>>

----------------------------------------------------------------------------
(* aggregate_zoom_level, called for z = max - 1 down to min.               *)

\* export_tiles_to_glb's list of the tile files of min_zoom..=max_zoom.
RECURSIVE all_tiles(_, _, _)
all_tiles(dir, min_zoom, max_zoom) ==
    IF min_zoom > max_zoom THEN <<>>
    ELSE get_tile_list_for_zoom(dir, min_zoom) \o all_tiles(dir, min_zoom + 1, max_zoom)

\* The loop head: the next level, or the export when none is left.
AggregateLevel ==
    /\ pc = "aggregate"
    /\ IF agg_z >= args.min
       THEN /\ fold' = [items |-> get_tile_list_for_zoom(tiles, agg_z + 1),
                        next |-> 1, accs |-> <<>>]
            /\ pc' = "agg_fold"
       ELSE /\ fold' = [items |-> all_tiles(tiles, args.min, args.max),
                        next |-> 1, accs |-> <<>>]
            /\ pc' = "export"
    /\ UNCHANGED <<args, exit_code, total_size, workflow, all_points, tile_map,
                   tiles, created, tile_dir, run_dir, run_files, readers, chan,
                   writer, sorted_iter, agg_z, out_dir, tile_contents, points_read,
                   read_errors, dec, glb, call>>

\* One child file read and folded by a worker.
AggregateFold ==
    /\ pc = "agg_fold"
    /\ fold.next <= Len(fold.items)
    /\ \E fresh \in BOOLEAN :
          /\ fold.accs = <<>> => fresh
          /\ LET child_file == fold.items[fold.next]
                 n == Len(fold.accs)
             IN  fold' = [fold EXCEPT
                     !.next = @ + 1,
                     !.accs = IF fresh
                              THEN Append(@, aggregate_fold(agg_z, tiles, EmptyMap, child_file))
                              ELSE [@ EXCEPT ![n] = aggregate_fold(agg_z, tiles, @, child_file)]]
    /\ UNCHANGED <<args, pc, exit_code, total_size, workflow, all_points, tile_map,
                   tiles, created, tile_dir, run_dir, run_files, readers, chan,
                   writer, sorted_iter, agg_z, out_dir, tile_contents, points_read,
                   read_errors, dec, glb, call>>

AggregateReduce ==
    /\ pc = "agg_fold"
    /\ \E i \in 1..(Len(fold.accs) - 1) : fold' = ReduceAt(i)
    /\ UNCHANGED <<args, pc, exit_code, total_size, workflow, all_points, tile_map,
                   tiles, created, tile_dir, run_dir, run_files, readers, chan,
                   writer, sorted_iter, agg_z, out_dir, tile_contents, points_read,
                   read_errors, dec, glb, call>>

\* try_reduce is complete: parent_map is its result.
AggregateReduced ==
    /\ pc = "agg_fold"
    /\ fold.next > Len(fold.items)
    /\ Len(fold.accs) <= 1
    /\ tile_map' = IF fold.accs = <<>> THEN EmptyMap ELSE fold.accs[1]
    /\ fold' = NoFold
    /\ pc' = "agg_write"
    /\ UNCHANGED <<args, exit_code, total_size, workflow, all_points, tiles, created,
                   tile_dir, run_dir, run_files, readers, chan, writer, sorted_iter,
                   agg_z, out_dir, tile_contents, points_read, read_errors, dec, glb, call>>

\* A mutant: the parent is written one level down, over a child's file.
parent_path_one_level_down(parent_tile) ==
    tile_path(parent_tile[1] + 1, parent_tile[2], parent_tile[3])

\* write_points_to_tile's path of a parent tile, z/x/y.bin.
parent_path(parent_tile) == tile_path(parent_tile[1], parent_tile[2], parent_tile[3])

\* write_points_to_tile for one entry of parent_map, by a worker.
AggregateWriteTile ==
    /\ pc = "agg_write"
    /\ \E parent_tile \in DOMAIN tile_map :
          LET path == parent_path(parent_tile)
          IN  /\ tiles' = write_file(tiles, path, tile_map[parent_tile])
              /\ created' = count_create(created, path)
              /\ tile_map' = map_remove(tile_map, parent_tile)
    /\ UNCHANGED <<args, pc, exit_code, total_size, workflow, all_points, fold,
                   tile_dir, run_dir, run_files, readers, chan, writer, sorted_iter,
                   agg_z, out_dir, tile_contents, points_read, read_errors, dec, glb, call>>

\* A mutant: the loop leaves out every other level.
rev_next_skipping(z) == z - 2

\* The level that follows z in (min..max).rev().
rev_next(z) == z - 1

\* aggregate_zoom_level returns Ok; the loop goes on to the level below.
AggregateReturn ==
    /\ pc = "agg_write"
    /\ tile_map = EmptyMap
    /\ agg_z' = rev_next(agg_z)
    /\ pc' = "aggregate"
    /\ UNCHANGED <<args, exit_code, total_size, workflow, all_points, fold, tile_map,
                   tiles, created, tile_dir, run_dir, run_files, readers, chan,
                   writer, sorted_iter, out_dir, tile_contents, points_read, read_errors, dec, glb, call>>

----------------------------------------------------------------------------
(* VoxelDecimator.  Coordinates and the voxel size are integers; the voxel *)
(* centre and the squared distance are kept doubled and quadrupled, which  *)
(* leaves every comparison of distances as the code makes it.              *)

get_voxel_index(point, voxel_size) ==
    <<point.x \div voxel_size, point.y \div voxel_size, point.z \div voxel_size>>

\* Twice the centre ((i + 0.5) s, (j + 0.5) s, (k + 0.5) s).
get_voxel_center(index, voxel_size) ==
    <<(2 * index[1] + 1) * voxel_size,
      (2 * index[2] + 1) * voxel_size,
      (2 * index[3] + 1) * voxel_size>>

\* Four times the squared distance of point a to the centre whose double is b.
squared_distance(a, b) ==
    (2 * a.x - b[1]) * (2 * a.x - b[1])
    + (2 * a.y - b[2]) * (2 * a.y - b[2])
    + (2 * a.z - b[3]) * (2 * a.z - b[3])

\* A mutant: a later point of equal distance replaces the earlier one.
replaces_best_on_tie(dist, best_dist) == dist <= best_dist

\* Entry::Occupied: the new point replaces the kept one.
replaces_best(dist, best_dist) == dist < best_dist

\* best_points after the first n points of the input.
RECURSIVE best_points(_, _, _)
best_points(points, voxel_size, n) ==
    IF n = 0 THEN <<>>
    ELSE LET map == best_points(points, voxel_size, n - 1)
             point == points[n]
             index == get_voxel_index(point, voxel_size)
             dist == squared_distance(point, get_voxel_center(index, voxel_size))
         IN  IF index \notin DOMAIN map
             THEN map @@ (index :> <<dist, point>>)
             ELSE IF replaces_best(dist, map[index][1])
                  THEN [map EXCEPT ![index] = <<dist, point>>]
                  ELSE map

\* A mutant: the Morton sort is left out, the hash map's order is kept.
sorted_by_morton_skipped(indexed) == TRUE

\* A mutant: the sort puts the greatest Morton code first.
sorted_by_morton_descending(indexed) ==
    \A i, j \in DOMAIN indexed : i < j => ~u64_less(indexed[i][1], indexed[j][1])

\* What sort_unstable_by_key establishes.
sorted_by_morton(indexed) ==
    \A i, j \in DOMAIN indexed : i < j => ~u64_less(indexed[j][1], indexed[i][1])

\* The sequences decimate can return: the hash map is iterated in any order
\* and the unstable sort may leave equal Morton codes in any order.
decimate(points, voxel_size) ==
    LET best == best_points(points, voxel_size, Len(points))
        \* the Morton code of every occupied voxel, computed once
        morton == [v \in DOMAIN best |-> morton_encode_3d(i64(v[1]), i64(v[2]), i64(v[3]))] @@ <<>>
        indexed(o) == [i \in DOMAIN o |-> <<morton[o[i]], best[o[i]][2]>>]
    IN  {[i \in DOMAIN o |-> indexed(o)[i][2]] :
            o \in {q \in Orderings(DOMAIN best) : sorted_by_morton(indexed(q))}}

----------------------------------------------------------------------------
(* PointCloud::new and the GLB encoder.  Coordinates are integers.  A GLB  *)
(* is kept as the Gltf structure serialised into its JSON chunk and the    *)
(* length of its BIN chunk.                                                *)

None == [some |-> FALSE]

Some(v) == [some |-> TRUE, value |-> v]

\* Stands for f64::MAX, greater than every coordinate of the model.
F64_MAX == 1000000

Coords(point) == <<point.x, point.y, point.z>>

\* init.min(v1).min(v2)... and init.max(v1).max(v2)... over a set of values
FoldMin(init, values) == CHOOSE m \in values \cup {init} : \A v \in values \cup {init} : m <= v

FoldMax(init, values) == CHOOSE m \in values \cup {init} : \A v \in values \cup {init} : m >= v

\* PointCloud::new: the bounding volume of the points; the offset is its
\* minimum corner.
PointCloud_new(points) ==
    LET axis(k) == {Coords(points[i])[k] : i \in DOMAIN points}
        min == [k \in 1..3 |-> FoldMin(F64_MAX, axis(k))]
        max == [k \in 1..3 |-> FoldMax(-F64_MAX, axis(k))]
    IN  [points |-> points,
         metadata |-> [point_count |-> Len(points),
                       bounding_volume |-> [min |-> min, max |-> max],
                       offset |-> min]]

ComponentType_UnsignedByte == 5121
ComponentType_UnsignedShort == 5123
ComponentType_Float == 5126

\* The values of (coordinate - offset) on axis k.
Relative(cloud, k) ==
    {Coords(cloud.points[i])[k] - cloud.metadata.offset[k] : i \in DOMAIN cloud.points}

build_vertex_buffer_f32(cloud) ==
    [bytes |-> Len(cloud.points) * 16,
     byte_stride |-> 16,
     vertex_count |-> Len(cloud.points),
     position_component_type |-> ComponentType_Float,
     position_normalized |-> FALSE,
     position_min |-> [k \in 1..3 |-> FoldMin(F64_MAX, Relative(cloud, k))],
     position_max |-> [k \in 1..3 |-> FoldMax(-F64_MAX, Relative(cloud, k))],
     color_byte_offset |-> 4 * 3,
     translation |-> cloud.metadata.offset,
     scale |-> None,
     needs_quantization_extension |-> FALSE]

u16_MAX == 65535

\* rcp(scale) * value, clamped to [0, 1], times 2^16 - 1, plus 0.5, truncated:
\* quantize_unsigned_norm of a coordinate relative to the common scale.
quantize_unsigned_norm(value, scale) ==
    IF scale = 0 \/ value <= 0 THEN 0
    ELSE IF value >= scale THEN u16_MAX
    ELSE (2 * value * u16_MAX + scale) \div (2 * scale)

build_vertex_buffer_quantized(cloud) ==
    LET common_scale ==
            FoldMax(0, Relative(cloud, 1) \cup Relative(cloud, 2) \cup Relative(cloud, 3))
        quantized(k) == {quantize_unsigned_norm(v, common_scale) : v \in Relative(cloud, k)}
    IN  [bytes |-> Len(cloud.points) * 12,
         byte_stride |-> 12,
         vertex_count |-> Len(cloud.points),
         position_component_type |-> ComponentType_UnsignedShort,
         position_normalized |-> TRUE,
         position_min |-> [k \in 1..3 |-> FoldMin(u16_MAX, quantized(k))],
         position_max |-> [k \in 1..3 |-> FoldMax(0, quantized(k))],
         color_byte_offset |-> 2 * 3 + 2,
         translation |-> cloud.metadata.offset,
         scale |-> Some(<<common_scale, common_scale, common_scale>>),
         needs_quantization_extension |-> TRUE]

\* The sizes the meshopt vertex codec may return for a buffer: nothing
\* written, or a size that depends on the data, below or above the size of
\* the buffer.
meshopt_encodeVertexBufferLevel(vertex_count, vertex_size) ==
    {0, vertex_size + 1, vertex_count * vertex_size + vertex_size + 1}

\* The scale of a Node that was given none.
Node_default_scale == <<1, 1, 1>>

\* A mutant: the meshopt extension is declared as used, not as required.
extensions_required_quantization_only(info, meshopt) ==
    IF info.needs_quantization_extension THEN <<"KHR_mesh_quantization">> ELSE <<>>

extensions_used(info, meshopt) ==
    (IF info.needs_quantization_extension THEN <<"KHR_mesh_quantization">> ELSE <<>>)
        \o (IF meshopt THEN <<"EXT_meshopt_compression">> ELSE <<>>)

extensions_required(info, meshopt) ==
    (IF info.needs_quantization_extension THEN <<"KHR_mesh_quantization">> ELSE <<>>)
        \o (IF meshopt THEN <<"EXT_meshopt_compression">> ELSE <<>>)

Err == [err |-> TRUE]

\* A mutant: with meshopt the fallback buffer is left out.
gltf_buffers_without_fallback(uncompressed_len, compressed_len, meshopt) ==
    IF meshopt \/ uncompressed_len > 0
    THEN <<[byte_length |-> IF meshopt THEN compressed_len ELSE uncompressed_len,
            ext_meshopt_compression |-> None]>>
    ELSE <<>>

\* A mutant: the second buffer is not marked as a fallback.
gltf_buffers_unmarked(uncompressed_len, compressed_len, meshopt) ==
    IF meshopt
    THEN <<[byte_length |-> compressed_len, ext_meshopt_compression |-> None],
           [byte_length |-> uncompressed_len, ext_meshopt_compression |-> None]>>
    ELSE IF uncompressed_len > 0
         THEN <<[byte_length |-> uncompressed_len, ext_meshopt_compression |-> None]>>
         ELSE <<>>

\* The buffers of assemble_glb: the compressed data and the fallback, or
\* the uncompressed data if there is any.
gltf_buffers(uncompressed_len, compressed_len, meshopt) ==
    IF meshopt
    THEN <<[byte_length |-> compressed_len, ext_meshopt_compression |-> None],
           [byte_length |-> uncompressed_len,
            ext_meshopt_compression |-> Some([fallback |-> TRUE])]>>
    ELSE IF uncompressed_len > 0
         THEN <<[byte_length |-> uncompressed_len, ext_meshopt_compression |-> None]>>
         ELSE <<>>

\* assemble_glb, for the size encoded_size returned by the meshopt codec.
assemble_glb(info, meshopt, encoded_size) ==
    LET uncompressed_len == info.bytes
        compressed_len == encoded_size
        gltf_buffer_views ==
            <<[buffer |-> IF meshopt THEN 1 ELSE 0,
               byte_offset |-> 0,
               byte_length |-> uncompressed_len,
               byte_stride |-> Some(info.byte_stride),
               ext_meshopt_compression |->
                   IF meshopt
                   THEN Some([buffer |-> 0,
                              byte_offset |-> 0,
                              byte_length |-> compressed_len,
                              byte_stride |-> info.byte_stride,
                              count |-> info.vertex_count,
                              mode |-> "ATTRIBUTES",
                              filter |-> "NONE"])
                   ELSE None]>>
        gltf_accessors ==
            <<[name |-> "positions",
               buffer_view |-> 0,
               byte_offset |-> 0,
               component_type |-> info.position_component_type,
               count |-> info.vertex_count,
               min |-> Some(info.position_min),
               max |-> Some(info.position_max),
               normalized |-> info.position_normalized],
              [name |-> "colors",
               buffer_view |-> 0,
               byte_offset |-> info.color_byte_offset,
               component_type |-> ComponentType_UnsignedByte,
               count |-> info.vertex_count,
               min |-> None,
               max |-> None,
               normalized |-> TRUE]>>
        node == [mesh |-> 0,
                 translation |-> info.translation,
                 scale |-> IF info.scale.some THEN info.scale.value
                           ELSE Node_default_scale]
    IN  IF meshopt /\ encoded_size = 0 /\ info.vertex_count > 0
        THEN Err
        ELSE [json |-> [nodes |-> <<node>>,
                        attributes |-> [POSITION |-> 0, COLOR_0 |-> 1],
                        accessors |-> gltf_accessors,
                        buffer_views |-> gltf_buffer_views,
                        buffers |-> gltf_buffers(uncompressed_len, compressed_len, meshopt),
                        extensions_used |-> extensions_used(info, meshopt),
                        extensions_required |-> extensions_required(info, meshopt)],
              bin |-> IF meshopt THEN compressed_len ELSE info.bytes]

\* A mutant: the float layout is used whatever the option says.
vertex_buffer_always_f32(cloud, quantize) == build_vertex_buffer_f32(cloud)

vertex_buffer(cloud, quantize) ==
    IF quantize THEN build_vertex_buffer_quantized(cloud)
    ELSE build_vertex_buffer_f32(cloud)

\* The GLBs generate_glb_with_options may return, or Err.
generate_glb_with_options(cloud, options) ==
    LET info == vertex_buffer(cloud, options.quantize)
    IN  {assemble_glb(info, options.meshopt, encoded_size) :
            encoded_size \in meshopt_encodeVertexBufferLevel(info.vertex_count,
                                                             info.byte_stride)}

\* The encoder run on its own, before it is given an input.
GlbIdle == [stage |-> "idle", cloud |-> PointCloud_new(<<>>),
            options |-> [quantize |-> FALSE, meshopt |-> FALSE], out |-> Err]

----------------------------------------------------------------------------
(* export_tiles_to_glb and the manifest.                                   *)

\* A mutant: the row of the tile is left out of the path of its GLB.
make_tile_content_without_row(tile_coord, point_cloud) ==
    [zxy |-> tile_coord,
     content_path |-> tile_path(tile_coord[1], tile_coord[2], 0),
     min_lng |-> point_cloud.metadata.bounding_volume.min[1],
     max_lng |-> point_cloud.metadata.bounding_volume.max[1],
     min_lat |-> point_cloud.metadata.bounding_volume.min[2],
     max_lat |-> point_cloud.metadata.bounding_volume.max[2],
     min_height |-> point_cloud.metadata.bounding_volume.min[3],
     max_height |-> point_cloud.metadata.bounding_volume.max[3]]

\* make_tile_content: the tile, the path of its GLB, z/x/y.glb, and the
\* bounding volume of the cloud it is given.
make_tile_content(tile_coord, point_cloud) ==
    [zxy |-> tile_coord,
     content_path |-> tile_path(tile_coord[1], tile_coord[2], tile_coord[3]),
     min_lng |-> point_cloud.metadata.bounding_volume.min[1],
     max_lng |-> point_cloud.metadata.bounding_volume.max[1],
     min_lat |-> point_cloud.metadata.bounding_volume.min[2],
     max_lat |-> point_cloud.metadata.bounding_volume.max[2],
     min_height |-> point_cloud.metadata.bounding_volume.min[3],
     max_height |-> point_cloud.metadata.bounding_volume.max[3]]

\* Ten times the cosine and the sine of an angle of a whole number of
\* eighths of a turn, in degrees.
Cos10(deg) ==
    CASE deg \in {0, 360} -> 10
      [] deg \in {45, -45, 315} -> 7
      [] deg \in {90, -90, 270} -> 0
      [] deg \in {135, 225} -> -7
      [] deg = 180 -> -10

Sin10(deg) == Cos10(IF deg >= 90 THEN deg - 90 ELSE deg + 270)

\* The radius of the globe, in units of height.
EarthRadius == 10

\* Longitude, latitude and height (EPSG:4979) to geocentric X, Y, Z
\* (EPSG:4978), on a sphere.
to_geocentric(p) ==
    [x |-> ((EarthRadius + p.z) * Cos10(p.y) * Cos10(p.x)) \div 100,
     y |-> ((EarthRadius + p.z) * Cos10(p.y) * Sin10(p.x)) \div 100,
     z |-> ((EarthRadius + p.z) * Sin10(p.y)) \div 10]

\* ECEF (X, Y, Z) to Cesium (X, Z, -Y).
axis_swap(p) == [x |-> p.x, y |-> p.z, z |-> -p.y]

\* The geometric error of a tile of level z, halved from level to level;
\* the correction for the latitude of row y is left out.
geometric_error(z, y) == 10 * Pow2(6 - z)

\* geometric_error_value * 0.1
voxel_size_of(geometric_error_value) == geometric_error_value \div 10

\* The two encoders main calls, without meshopt.
generate_glb(cloud) ==
    generate_glb_with_options(cloud, [quantize |-> FALSE, meshopt |-> FALSE])

generate_quantized_glb(cloud) ==
    generate_glb_with_options(cloud, [quantize |-> TRUE, meshopt |-> FALSE])

\* A mutant: the GLB is built from the cloud in longitude, latitude and height.
points_of_glb_geographic(points) == points

\* The points of a tile as the decimator gets them.
points_of_glb(points) == [k \in DOMAIN points |-> axis_swap(to_geocentric(points[k]))]

\* The stretches of consecutive positions of the tile list that a set of
\* positions is made of.
Stretches(S) == Cardinality({j \in S : j - 1 \notin S})

\* Each worker of the pool goes through a stretch of the tile list in list
\* order, the first one from the head of the list; position i can be the
\* next one done if that leaves no more stretches than there are workers.
worker_can_finish(i) ==
    Stretches(DOMAIN tile_contents \cup {0, i}) <= args.num_cores

\* One tile file turned into a GLB by a worker; the worker fails if the
\* tile file or the geocentric transformer cannot be had.
ExportTile ==
    /\ pc = "export"
    /\ \E i \in DOMAIN fold.items \ DOMAIN tile_contents :
          LET tile_file == fold.items[i]
              tile_coord == extract_tile_coords(tile_file)
          IN  /\ worker_can_finish(i)
              /\ IF tile_file \in DOMAIN tiles /\ args.proj # "fail_geocentric"
                 THEN LET points == tiles[tile_file]
                          tile_content == make_tile_content(tile_coord, PointCloud_new(points))
                          voxel_size ==
                              voxel_size_of(geometric_error(tile_coord[1], tile_coord[3]))
                      IN  \E decimated_points \in decimate(points_of_glb(points), voxel_size) :
                            LET decimated == PointCloud_new(decimated_points)
                            IN  \E built \in IF args.quantize
                                              THEN generate_quantized_glb(decimated)
                                              ELSE generate_glb(decimated) :
                                  IF built = Err
                                  THEN Fail /\ UNCHANGED <<tile_contents, out_dir>>
                                  ELSE /\ tile_contents' = tile_contents @@ (i :> tile_content)
                                       /\ out_dir' = [out_dir EXCEPT
                                              !.glbs = count_create(@, tile_content.content_path),
                                              !.glb_files = write_file(@, tile_content.content_path, built)]
                                       /\ UNCHANGED pc
                                       /\ NoFail
                 ELSE Fail /\ UNCHANGED <<tile_contents, out_dir>>
    /\ UNCHANGED <<args, total_size, workflow, all_points, fold, tile_map, created,
                   readers, chan, writer, sorted_iter, agg_z, points_read,
                   read_errors, dec, glb, call>>

\* export_tiles_to_glb returns the records; the tile directory is dropped.
ExportReturn ==
    /\ pc = "export"
    /\ DOMAIN tile_contents = DOMAIN fold.items
    /\ fold' = NoFold
    /\ tile_dir' = "removed"
    /\ tiles' = EmptyMap
    /\ pc' = "tileset"
    /\ UNCHANGED <<args, exit_code, total_size, workflow, all_points, tile_map,
                   created, run_dir, run_files, readers, chan, writer, sorted_iter,
                   agg_z, out_dir, tile_contents, points_read, read_errors, dec, glb, call>>

\* tileset.json is written and the workflow returns Ok.
WriteTileset ==
    /\ pc = "tileset"
    /\ out_dir' = [out_dir EXCEPT !.tileset = TRUE]
    /\ pc' = "done"
    /\ exit_code' = "ok"
    /\ UNCHANGED <<args, total_size, workflow, all_points, fold, tile_map, tiles,
                   created, tile_dir, run_dir, run_files, readers, chan, writer,
                   sorted_iter, agg_z, tile_contents, points_read, read_errors, dec, glb, call>>

----------------------------------------------------------------------------
(* external_sort_workflow, Stage A: reader threads, the bounded channel    *)
(* and the writer loop of the main thread.                                 *)

point_size == 96

default_chunk_points_len == 2

Max(a, b) == IF a >= b THEN a ELSE b

channel_capacity ==
    LET max_memory_mb_bytes == args.max_memory_mb * BytesPerMb
        one_chunk_mem == default_chunk_points_len * point_size
        capacity == max_memory_mb_bytes \div one_chunk_mem
    IN  Max(IF capacity = 0 THEN 1 ELSE capacity, args.num_cores * 2)

\* input_files.chunks(input_files.len().div_ceil(num_cores))
file_shards(files, num_cores) ==
    LET chunk_size == (Len(files) + num_cores - 1) \div num_cores
        count == (Len(files) + chunk_size - 1) \div chunk_size
    IN  [i \in 1..count |->
            SubSeq(files, (i - 1) * chunk_size + 1,
                   IF i * chunk_size < Len(files) THEN i * chunk_size ELSE Len(files))]

\* tempdir() for the run files.
ExternalTempdir ==
    /\ pc = "ex_start"
    /\ run_dir' = "exists"
    /\ pc' = "ex_spawn"
    /\ UNCHANGED <<args, exit_code, total_size, workflow, all_points, fold, tile_map,
                   tiles, created, tile_dir, run_files, readers, chan, writer,
                   sorted_iter, agg_z, out_dir, tile_contents, points_read,
                   read_errors, dec, glb, call>>

\* The extension check and the reader threads spawned; the main thread
\* drops its sender and enters the writer loop.
ExternalSpawn ==
    /\ pc = "ex_spawn"
    /\ LET checked == check_and_get_extension(args.input)
           shards == file_shards(args.input, args.num_cores)
       IN  IF checked.res = "panic"
           THEN Fail /\ UNCHANGED readers
           ELSE /\ readers' = [i \in DOMAIN shards |->
                                  [pc |-> "start", kind |-> ReaderKind(checked.ext),
                                   reader |-> unopened_reader(shards[i]),
                                   buffer |-> <<>>, to_send |-> <<>>]]
                /\ pc' = "ex_writer"
                /\ NoFail
    /\ UNCHANGED <<args, total_size, workflow, all_points, fold, tile_map, created,
                   chan, writer, sorted_iter, agg_z, out_dir, tile_contents,
                   points_read, read_errors, dec, glb, call>>

\* A reader thread creates its transformer and its point reader; either may
\* fail, and the thread panics.
ReaderStart(i) ==
    /\ pc = "ex_writer"
    /\ readers[i].pc = "start"
    /\ LET n == new_reader(readers[i].kind, readers[i].reader.files)
       IN  readers' = [readers EXCEPT ![i] =
               IF args.proj = "fail_new" \/ n.res # "ok"
               THEN [@ EXCEPT !.pc = "panicked"]
               ELSE [@ EXCEPT !.pc = "reading", !.reader = n.reader]]
    /\ UNCHANGED <<args, pc, exit_code, total_size, workflow, all_points, fold,
                   tile_map, tiles, created, tile_dir, run_dir, run_files, chan,
                   writer, sorted_iter, agg_z, out_dir, tile_contents, points_read,
                   read_errors, dec, glb, call>>

\* A mutant: the buffer is transformed a second time before it is sent.
Transformed_twice(r, next_pc) ==
    [r EXCEPT !.pc = next_pc,
              !.to_send = transform_points_in_place(transform_points_in_place(r.buffer)),
              !.buffer = <<>>]

\* The buffer transformed in place: the thread panics when the transform
\* fails.
Transformed(r, next_pc) ==
    IF args.proj \in {"ok", "fail_geocentric"}
    THEN [r EXCEPT !.pc = next_pc,
                   !.to_send = transform_points_in_place(r.buffer),
                   !.buffer = <<>>]
    ELSE [r EXCEPT !.pc = "panicked", !.buffer = <<>>]

\* One turn of the reader's loop: next_point, the push, and a full buffer
\* transformed and taken for sending; or the end of the loop, where what is
\* left in the buffer is transformed and taken for the last send.
ReaderNext(i) ==
    /\ pc = "ex_writer"
    /\ readers[i].pc = "reading"
    /\ LET r == readers[i]
           n == next_point(r.kind, r.reader)
           pushed == [r EXCEPT !.reader = n.reader, !.buffer = Append(@, n.point)]
           ended == [r EXCEPT !.reader = n.reader]
       IN  /\ readers' = [readers EXCEPT ![i] =
                 CASE n.res = "point" ->
                        IF Len(pushed.buffer) >= default_chunk_points_len
                        THEN Transformed(pushed, "sending")
                        ELSE pushed
                   [] n.res = "panic" -> [r EXCEPT !.pc = "panicked", !.buffer = <<>>]
                   [] OTHER ->
                        IF ended.buffer # <<>>
                        THEN Transformed(ended, "last_send")
                        ELSE [ended EXCEPT !.pc = "exited"]]
           /\ points_read' = points_read + (IF n.res = "point" THEN 1 ELSE 0)
           /\ read_errors' = read_errors + (IF n.res = "err" THEN 1 ELSE 0)
    /\ UNCHANGED <<args, pc, exit_code, total_size, workflow, all_points, fold,
                   tile_map, tiles, created, tile_dir, run_dir, run_files, chan,
                   writer, sorted_iter, agg_z, out_dir, tile_contents, dec, glb, call>>

\* A mutant: the channel takes a chunk whatever it already holds.
channel_has_room_unbounded == TRUE

\* sync_channel(channel_capacity): send blocks while the channel is full.
channel_has_room == Len(chan) < channel_capacity

\* tx.send: the chunk enters the channel once there is room.
ReaderSend(i) ==
    /\ pc = "ex_writer"
    /\ readers[i].pc \in {"sending", "last_send"}
    /\ channel_has_room
    /\ chan' = Append(chan, readers[i].to_send)
    /\ readers' = [readers EXCEPT ![i] =
           [@ EXCEPT !.to_send = <<>>,
                     !.pc = IF @ = "sending" THEN "reading" ELSE "exited"]]
    /\ UNCHANGED <<args, pc, exit_code, total_size, workflow, all_points, fold,
                   tile_map, tiles, created, tile_dir, run_dir, run_files, writer,
                   sorted_iter, agg_z, out_dir, tile_contents, points_read, read_errors, dec, glb, call>>

\* The writer loop receives the next chunk.
WriterReceive ==
    /\ pc = "ex_writer"
    /\ ~writer.holding
    /\ chan # <<>>
    /\ writer' = [holding |-> TRUE, chunk |-> Head(chan)]
    /\ chan' = Tail(chan)
    /\ UNCHANGED <<args, pc, exit_code, total_size, workflow, all_points, fold,
                   tile_map, tiles, created, tile_dir, run_dir, run_files, readers,
                   sorted_iter, agg_z, out_dir, tile_contents, points_read, read_errors, dec, glb, call>>

\* A mutant: the external sort keys the points by their tile one level up.
keyed_points_one_level_up(max_zoom, chunk) ==
    [i \in DOMAIN chunk |-> <<leaf_tile_id(max_zoom - 1, chunk[i]), chunk[i]>>]

\* The chunk's points with their sort keys.
keyed_points(max_zoom, chunk) ==
    [i \in DOMAIN chunk |-> <<leaf_tile_id(max_zoom, chunk[i]), chunk[i]>>]

\* A mutant: a pair goes in front of the pairs of its own key.
RECURSIVE sort_by_key_reversing_ties(_)
sort_by_key_reversing_ties(pairs) ==
    IF Len(pairs) <= 1 THEN pairs
    ELSE LET init == sort_by_key_reversing_ties(SubSeq(pairs, 1, Len(pairs) - 1))
             last == pairs[Len(pairs)]
             k == Cardinality({i \in DOMAIN init : init[i][1] < last[1]})
         IN  SubSeq(init, 1, k) \o <<last>> \o SubSeq(init, k + 1, Len(init))

\* sort_by_key is a stable sort: a pair comes behind the pairs of a smaller
\* key and behind the earlier pairs of its own key.
sort_by_key(pairs) ==
    LET behind(i) == {j \in DOMAIN pairs :
                        \/ pairs[j][1] < pairs[i][1]
                        \/ pairs[j][1] = pairs[i][1] /\ j <= i}
    IN  [r \in DOMAIN pairs |->
            pairs[CHOOSE i \in DOMAIN pairs : Cardinality(behind(i)) = r]] @@ <<>>

\* The chunk is keyed, sorted and written to run_<n>.bin.
WriterWriteRun ==
    /\ pc = "ex_writer"
    /\ writer.holding
    /\ run_files' = Append(run_files, sort_by_key(keyed_points(args.max, writer.chunk)))
    /\ writer' = NoWriter
    /\ UNCHANGED <<args, pc, exit_code, total_size, workflow, all_points, fold,
                   tile_map, tiles, created, tile_dir, run_dir, readers, chan,
                   sorted_iter, agg_z, out_dir, tile_contents, points_read, read_errors, dec, glb, call>>

\* A mutant: a sender is left that is never dropped.
AllSendersDropped_but_one == FALSE

AllSendersDropped ==
    \A i \in DOMAIN readers : readers[i].pc \in {"exited", "panicked"}

\* A mutant: the result of the joins is not looked at.
WriterClosed_ignoring_panics ==
    /\ pc = "ex_writer"
    /\ ~writer.holding
    /\ chan = <<>>
    /\ AllSendersDropped
    /\ pc' = "ex_sort"
    /\ NoFail
    /\ UNCHANGED <<args, total_size, workflow, all_points, fold, tile_map, created,
                   readers, chan, writer, sorted_iter, agg_z, out_dir, tile_contents,
                   points_read, read_errors, dec, glb, call>>

\* The channel is empty and closed: the writer loop ends and the threads are
\* joined; a panicked reader makes the main thread panic.
WriterClosed ==
    /\ pc = "ex_writer"
    /\ ~writer.holding
    /\ chan = <<>>
    /\ AllSendersDropped
    /\ IF \E i \in DOMAIN readers : readers[i].pc = "panicked"
       THEN Fail
       ELSE pc' = "ex_sort" /\ NoFail
    /\ UNCHANGED <<args, total_size, workflow, all_points, fold, tile_map, created,
                   readers, chan, writer, sorted_iter, agg_z, out_dir, tile_contents,
                   points_read, read_errors, dec, glb, call>>

----------------------------------------------------------------------------
(* external_sort_workflow, Stage B: the run files merged into one stream   *)
(* sorted by key, and each group of equal keys written to its tile file.   *)

\* RunFileIterator: the pairs of the run files, one file after the other.
RECURSIVE RunFileIterator(_)
RunFileIterator(files) ==
    IF files = <<>> THEN <<>> ELSE Head(files) \o RunFileIterator(Tail(files))

\* The sequences that hold the elements of group, each as often as group.
Arrangements(group) ==
    {q \in [1..Len(group) -> Range(group)] : SeqToBag(q) = SeqToBag(group)}

\* kv_extsort::sort: the pairs in ascending key order; pairs of one key come
\* in any order.
RECURSIVE kv_extsort_sort(_)
kv_extsort_sort(pairs) ==
    IF pairs = <<>> THEN {<<>>}
    ELSE LET least == CHOOSE k \in {pairs[i][1] : i \in DOMAIN pairs} :
                          \A i \in DOMAIN pairs : k <= pairs[i][1]
             IsLeast(pair) == pair[1] = least
             IsMore(pair) == pair[1] # least
         IN  {g \o r : g \in Arrangements(SelectSeq(pairs, IsLeast)),
                       r \in kv_extsort_sort(SelectSeq(pairs, IsMore))}

\* A mutant: every pair of the stream is a group of its own.
first_group_len_single(stream) == IF stream = <<>> THEN 0 ELSE 1

\* chunk_by: the length of the stream's first group of equal keys.
RECURSIVE first_group_len(_)
first_group_len(stream) ==
    IF Len(stream) <= 1 THEN Len(stream)
    ELSE IF stream[2][1] = stream[1][1]
         THEN 1 + first_group_len(Tail(stream))
         ELSE 1

\* The run files are listed and sorted into one stream; tempdir() for the
\* tiles.
ExternalSort ==
    /\ pc = "ex_sort"
    /\ sorted_iter' \in kv_extsort_sort(RunFileIterator(run_files))
    /\ tile_dir' = "exists"
    /\ pc' = "ex_groups"
    /\ UNCHANGED <<args, exit_code, total_size, workflow, all_points, fold, tile_map,
                   tiles, created, run_dir, run_files, readers, chan, writer, agg_z,
                   out_dir, tile_contents, points_read, read_errors, dec, glb, call>>

\* The next group of the stream written to the tile file of its key.
ExternalWriteGroup ==
    /\ pc = "ex_groups"
    /\ sorted_iter # <<>>
    /\ LET n == first_group_len(sorted_iter)
           key == sorted_iter[1][1]
           points == [i \in 1..n |-> sorted_iter[i][2]]
       IN  /\ tiles' = write_file(tiles, leaf_path(key), points)
           /\ created' = count_create(created, leaf_path(key))
           /\ sorted_iter' = SubSeq(sorted_iter, n + 1, Len(sorted_iter))
    /\ UNCHANGED <<args, pc, exit_code, total_size, workflow, all_points, fold,
                   tile_map, tile_dir, run_dir, run_files, readers, chan, writer,
                   agg_z, out_dir, tile_contents, points_read, read_errors, dec, glb, call>>

\* The stream is at its end: the run directory is dropped and the
\* aggregation begins.
ExternalGrouped ==
    /\ pc = "ex_groups"
    /\ sorted_iter = <<>>
    /\ run_dir' = "removed"
    /\ run_files' = <<>>
    /\ agg_z' = args.max - 1
    /\ pc' = "aggregate"
    /\ UNCHANGED <<args, exit_code, total_size, workflow, all_points, fold, tile_map,
                   tiles, created, tile_dir, readers, chan, writer, sorted_iter,
                   out_dir, tile_contents, points_read, read_errors, dec, glb, call>>

----------------------------------------------------------------------------
(* The decimator run on its own: decimate an input, then decimate the      *)
(* result again.                                                           *)

MaxDecLen == 3

FarX == 2 * Pow2(21) + 1

DecPoints ==
    {[x |-> 0, y |-> 1, z |-> 1], [x |-> 1, y |-> 0, z |-> 1],
     [x |-> 1, y |-> 1, z |-> 1], [x |-> -1, y |-> 1, z |-> 1],
     [x |-> FarX, y |-> 1, z |-> 1]}

VoxelSizes == {2, 4}

DecInputs == UNION {[1..n -> DecPoints] : n \in 0..MaxDecLen}

DecIdle == [stage |-> "idle", points |-> <<>>, voxel_size |-> 1,
            out |-> <<>>, again |-> <<>>]

NoArgs == [input |-> <<>>, max_memory_mb |-> 0, min |-> 0, max |-> 0,
           num_cores |-> 1, proj |-> "ok", quantize |-> FALSE]

InitDec ==
    /\ StartOfMain(NoArgs)
    /\ \E P \in DecInputs, s \in VoxelSizes :
          dec = [stage |-> "input", points |-> P, voxel_size |-> s,
                 out |-> <<>>, again |-> <<>>]
    /\ glb = GlbIdle
    /\ call = NoCall

DecimateOnce ==
    /\ dec.stage = "input"
    /\ \E r \in decimate(dec.points, dec.voxel_size) :
          dec' = [dec EXCEPT !.stage = "once", !.out = r]
    /\ UNCHANGED <<runVars, glb, call>>

DecimateAgain ==
    /\ dec.stage = "once"
    /\ \E r \in decimate(dec.out, dec.voxel_size) :
          dec' = [dec EXCEPT !.stage = "twice", !.again = r]
    /\ UNCHANGED <<runVars, glb, call>>

NextDec == DecimateOnce \/ DecimateAgain

SpecDec == InitDec /\ [][NextDec]_vars

----------------------------------------------------------------------------
(* The GLB encoder run on its own, on the clouds PointCloud::new builds.   *)

MaxGlbLen == 2

GlbPoints ==
    {[x |-> 0, y |-> 0, z |-> 0], [x |-> 1, y |-> 2, z |-> 3],
     [x |-> 4, y |-> 0, z |-> 2], [x |-> -1, y |-> 5, z |-> 5]}

GlbInputs == UNION {[1..n -> GlbPoints] : n \in 0..MaxGlbLen}

GlbOptions == [quantize : BOOLEAN, meshopt : BOOLEAN]

InitGlb ==
    /\ StartOfMain(NoArgs)
    /\ dec = DecIdle
    /\ \E P \in GlbInputs, o \in GlbOptions :
          glb = [stage |-> "input", cloud |-> PointCloud_new(P), options |-> o,
                 out |-> Err]
    /\ call = NoCall

GenerateGlb ==
    /\ glb.stage = "input"
    /\ \E r \in generate_glb_with_options(glb.cloud, glb.options) :
          glb' = [glb EXCEPT !.stage = "done", !.out = r]
    /\ UNCHANGED <<runVars, dec, call>>

NextGlb == GenerateGlb

SpecGlb == InitGlb /\ [][NextGlb]_vars

----------------------------------------------------------------------------
(* morton_encode_3d called on its own, on two voxel indices.               *)

\* An i64 of the model's integers, with its 64 bits.
Index(n) == [n |-> n, small |-> TRUE, bits |-> i64(n)]

\* i64::MAX, i64::MIN and the least index whose offset sum wraps.
BigIndices ==
    {[n |-> 0, small |-> FALSE, bits |-> 0..62],
     [n |-> 0, small |-> FALSE, bits |-> {63}],
     [n |-> 0, small |-> FALSE, bits |-> 20..62]}

\* Indices at and next to the ends of [-2^20, 2^20) and around 0.
MortonIndices ==
    {Index(n) : n \in {-Pow2(20), -1, 0, Pow2(20) - 1, Pow2(20)}}
        \cup BigIndices

MortonCore == {Index(n) : n \in {-Pow2(20), 0, Pow2(20) - 1}}

InitMorton ==
    /\ StartOfMain(NoArgs)
    /\ dec = DecIdle
    /\ glb = GlbIdle
    /\ \E a \in [1..3 -> MortonIndices], b \in [1..3 -> MortonCore] :
          call = [fn |-> "morton_encode_3d", stage |-> "input", a |-> a, b |-> b,
                  code_a |-> {}, code_b |-> {}]

MortonEncode ==
    /\ call.fn = "morton_encode_3d"
    /\ call.stage = "input"
    /\ call' = [call EXCEPT
           !.stage = "done",
           !.code_a = morton_encode_3d(call.a[1].bits, call.a[2].bits, call.a[3].bits),
           !.code_b = morton_encode_3d(call.b[1].bits, call.b[2].bits, call.b[3].bits)]
    /\ UNCHANGED <<runVars, dec, glb>>

NextMorton == MortonEncode

SpecMorton == InitMorton /\ [][NextMorton]_vars

----------------------------------------------------------------------------
(* OctreeNode::build called on its own.  A u32 is the set of its one bits; *)
(* box coordinates are whole numbers of a unit fine enough for every       *)
(* midpoint of the depths built to be a whole number too.                  *)

u32(n) == {i \in 0..30 : (n \div Pow2(i)) % 2 = 1}

u32_MAX == 0..31

\* a + 1 in u32 arithmetic: the value modulo 2^32 and whether it overflows.
u32_add_1(a) ==
    LET free == (0..31) \ a
    IN  IF free = {} THEN [overflow |-> TRUE, value |-> {}]
        ELSE LET m == CHOOSE i \in free : \A j \in free : i <= j
             IN  [overflow |-> FALSE, value |-> (a \ (0..(m - 1))) \cup {m}]

\* a * 2 + d in u32 arithmetic, d a bit.
u32_mul_2_add(a, d) ==
    [overflow |-> 31 \in a,
     value |-> {b + 1 : b \in a \ {31}} \cup (IF d = 1 THEN {0} ELSE {})]

Panicked == [panic |-> TRUE]

bit(i, k) == (i \div Pow2(k)) % 2

\* A mutant: the bits of the child index are given to the axes in the
\* opposite order.
child_bit_reversed(i, axis) == bit(i, 3 - axis)

\* dx, dy, dz of child i: (i >> 0) & 1, (i >> 1) & 1, (i >> 2) & 1.
child_bit(i, axis) == bit(i, axis - 1)

\* OctreeNode::build; with overflow checks (a debug build) an overflow of
\* the child's tile coordinates panics, without them it wraps.
RECURSIVE OctreeNode_build(_, _, _, _)
OctreeNode_build(bounding_box, tile_coords, depth, overflow_checks) ==
    LET tile_coords_object ==
            [level |-> tile_coords[1],
             xyz |-> <<tile_coords[2], tile_coords[3], tile_coords[4]>>]
    IN  IF depth = 0
        THEN [bounding_volume |-> bounding_box, tile_coord |-> tile_coords_object,
              children |-> None]
        ELSE LET min == bounding_box.min
                 max == bounding_box.max
                 mid == [k \in 1..3 |-> (min[k] + max[k]) \div 2]
                 level == u32_add_1(tile_coords[1])
                 coord(i, k) == u32_mul_2_add(tile_coords[k + 1], child_bit(i, k))
                 overflows ==
                     level.overflow \/ \E i \in 0..7, k \in 1..3 : coord(i, k).overflow
                 child(i) ==
                     LET child_bounding_box ==
                             [min |-> [k \in 1..3 |->
                                          IF child_bit(i, k) = 0 THEN min[k] ELSE mid[k]],
                              max |-> [k \in 1..3 |->
                                          IF child_bit(i, k) = 0 THEN mid[k] ELSE max[k]]]
                         child_tile_coords ==
                             <<level.value, coord(i, 1).value, coord(i, 2).value,
                               coord(i, 3).value>>
                     IN  OctreeNode_build(child_bounding_box, child_tile_coords,
                                          depth - 1, overflow_checks)
                 children == [i \in 1..8 |-> child(i - 1)]
             IN  IF overflow_checks /\ overflows THEN Panicked
                 ELSE IF \E i \in 1..8 : children[i] = Panicked THEN Panicked
                 ELSE [bounding_volume |-> bounding_box,
                       tile_coord |-> tile_coords_object,
                       children |-> Some(children)]

MaxOctreeDepth == 2

OctreeUnit == Pow2(MaxOctreeDepth)

OctreeBoxes ==
    {[min |-> <<0, 0, 0>>, max |-> <<OctreeUnit, OctreeUnit, OctreeUnit>>],
     [min |-> <<-OctreeUnit, 0, OctreeUnit>>, max |-> <<OctreeUnit, OctreeUnit, 3 * OctreeUnit>>],
     [min |-> <<0, 0, 0>>, max |-> <<0, 0, 0>>]}

\* Tile coordinates from 0 up to the greatest u32.
OctreeTileCoords ==
    {<<l, x, y, z>> : l \in {u32(0), u32(3), u32_MAX \ {0}, u32_MAX},
                      x \in {u32(0), u32(5), {31}, {30}, u32_MAX},
                      y \in {u32(0), u32(1)},
                      z \in {u32(0), u32(2), {31 - MaxOctreeDepth}}}

InitOctree ==
    /\ StartOfMain(NoArgs)
    /\ dec = DecIdle
    /\ glb = GlbIdle
    /\ \E b \in OctreeBoxes, t \in OctreeTileCoords, d \in 0..MaxOctreeDepth,
          c \in BOOLEAN :
          call = [fn |-> "OctreeNode::build", stage |-> "input", bounding_box |-> b,
                  tile_coords |-> t, depth |-> d, overflow_checks |-> c, out |-> None]

BuildOctree ==
    /\ call.fn = "OctreeNode::build"
    /\ call.stage = "input"
    /\ call' = [call EXCEPT
           !.stage = "done",
           !.out = OctreeNode_build(call.bounding_box, call.tile_coords, call.depth,
                                    call.overflow_checks)]
    /\ UNCHANGED <<runVars, dec, glb>>

NextOctree == BuildOctree

SpecOctree == InitOctree /\ [][NextOctree]_vars

----------------------------------------------------------------------------
(* Runs of the tiler.  Source coordinates are whole units of 90 degrees of *)
(* longitude and 45 degrees of latitude.                                   *)

MaxFiles == 2

MaxRecs == 2

pA == [x |-> 0, y |-> 0, z |-> 0]
pB == [x |-> 1, y |-> 1, z |-> 0]
pC == [x |-> 0, y |-> -1, z |-> 0]
pD == [x |-> 1, y |-> 0, z |-> 0]

RecSeqs(n, S) == UNION {[1..k -> S] : k \in 0..n}

MkFile(ext, recs, size) == [ext |-> ext, size |-> size, readable |-> TRUE, recs |-> recs]

Unreadable(ext, size) == [ext |-> ext, size |-> size, readable |-> FALSE, recs |-> <<>>]

MkArgs(input, mb, min_zoom, max_zoom, cores, proj) ==
    [input |-> input, max_memory_mb |-> mb, min |-> min_zoom, max |-> max_zoom,
     num_cores |-> cores, proj |-> proj, quantize |-> FALSE]

\* The same command line with --quantize.
Quantized(a) == [a EXCEPT !.quantize = TRUE]

\* Files of one extension with at most r records: points and records that
\* do not parse, or a file that cannot be opened.
InputFiles(ext, r) ==
    {MkFile(ext, recs, BytesPerMb) : recs \in RecSeqs(r, {pA, pB, Bad})}
        \cup {Unreadable(ext, BytesPerMb)}

\* The lists of k such files with at most r records between them.
RECURSIVE ListsOf(_, _, _)
ListsOf(ext, k, r) ==
    IF k = 0 THEN {<<>>}
    ELSE UNION {{<<f>> \o rest : rest \in ListsOf(ext, k - 1, r - Len(f.recs))} :
                   f \in InputFiles(ext, r)}

InputLists(ext) == UNION {ListsOf(ext, k, MaxRecs) : k \in 1..MaxFiles}

\* Lists of any length from 0 and of any mix of extensions, known or not.
MixedLists ==
    UNION {[1..k -> {MkFile(ext, <<pA>>, BytesPerMb) :
                        ext \in {"las", "laz", "csv", "txt", "xyz", ""}}] :
              k \in 0..MaxFiles}

\* Lists of files whose sizes are at and next to a whole megabyte.
SizedLists ==
    UNION {[1..k -> {MkFile("las", <<pA>>, size) :
                        size \in {BytesPerMb - 1, BytesPerMb, BytesPerMb + 1}}] :
              k \in 1..MaxFiles}

MaxZoom == 2

MaxDeepRecs == 3

\* One file of points that fall into different tiles of the deeper levels.
DeepLists ==
    {<<MkFile("las", r, BytesPerMb)>> : r \in RecSeqs(MaxDeepRecs, {pA, pB, pC, pD})}

\* Points of two tiles of level 1 in an order that is not that of their
\* keys, for chunks that the writer loop has to reorder.
MixedRecs == <<pB, pA, pC, pA, pD, pB, pC>>

\* Files for two reader threads: the first reads a point and then comes to
\* a file that it cannot open, the second reads its files to the end.
PanicFiles ==
    <<MkFile("las", <<pA>>, BytesPerMb), Unreadable("las", BytesPerMb),
      MkFile("las", <<pB, pB, pB>>, BytesPerMb), MkFile("las", <<>>, BytesPerMb)>>

\* A budget of 0 MB sends every input to the external sort, one of
\* MaxFiles MB keeps the inputs of whole megabytes in memory.  A second
\* core makes a difference from two files on.
Runs ==
    {MkArgs(input, MaxFiles, 0, 1, 1, "ok") :
        input \in InputLists("las") \cup InputLists("csv") \cup MixedLists}
    \cup {MkArgs(input, 0, 0, 1, 1, "ok") :
        input \in InputLists("las") \cup InputLists("csv") \cup MixedLists}
    \cup {MkArgs(input, 0, 0, 1, 2, "ok") :
        input \in {l \in InputLists("las") \cup InputLists("csv") : Len(l) >= 2}}
    \cup {MkArgs(input, mb, 0, 1, 1, "ok") : input \in SizedLists, mb \in 0..MaxFiles}
    \cup {MkArgs(input, mb, min_zoom, MaxZoom, 1, "ok") :
        input \in DeepLists, mb \in {0, 1}, min_zoom \in 0..MaxZoom}
    \cup {Quantized(MkArgs(input, 1, 0, MaxZoom, 1, "ok")) : input \in DeepLists}
    \cup {MkArgs(<<MkFile("las", <<pA, pB>>, BytesPerMb)>>, mb, 0, 1, 1, proj) :
        mb \in {0, 1}, proj \in {"fail_new", "fail_transform", "fail_geocentric"}}
    \cup {MkArgs(<<MkFile("csv", MixedRecs, BytesPerMb)>>, 0, 0, 1, 1, "ok")}
    \cup {MkArgs(PanicFiles, 0, 0, 1, 2, "ok")}

Init ==
    /\ \E a \in Runs : StartOfMain(a)
    /\ dec = DecIdle
    /\ glb = GlbIdle
    /\ call = NoCall

Readers ==
    \E i \in DOMAIN readers : ReaderStart(i) \/ ReaderNext(i) \/ ReaderSend(i)

Next ==
    \/ Main
    \/ InMemoryRead
    \/ InMemoryTransform
    \/ InMemoryFold
    \/ InMemoryReduce
    \/ InMemoryGrouped
    \/ InMemoryWriteTile
    \/ InMemoryWritten
    \/ ExternalTempdir
    \/ ExternalSpawn
    \/ Readers
    \/ WriterReceive
    \/ WriterWriteRun
    \/ WriterClosed
    \/ ExternalSort
    \/ ExternalWriteGroup
    \/ ExternalGrouped
    \/ AggregateLevel
    \/ AggregateFold
    \/ AggregateReduce
    \/ AggregateReduced
    \/ AggregateWriteTile
    \/ AggregateReturn
    \/ ExportTile
    \/ ExportReturn
    \/ WriteTileset

Spec == Init /\ [][Next]_vars

MaxStreamLen == 10

\* Long files of one point, for the reader threads, the channel and the
\* writer loop to fill up.
Stream(n, p) == MkFile("csv", [i \in 1..n |-> p], BytesPerMb)

StreamRuns ==
    {MkArgs(<<Stream(n, pA)>>, mb, 0, 1, 1, "ok") : n \in 0..MaxStreamLen, mb \in {0, 1}}
    \cup {MkArgs(<<Stream(n, pA), Stream(MaxStreamLen - 2, pB)>>, 0, 0, 1, cores, "ok") :
        n \in {0, 1, MaxStreamLen - 2}, cores \in 1..2}

InitStageA ==
    /\ \E a \in StreamRuns : StartOfMain(a)
    /\ dec = DecIdle
    /\ glb = GlbIdle
    /\ call = NoCall

SpecStageA == InitStageA /\ [][Next]_vars

\* Command lines for the end of Stage A: one and two reader threads with
\* streams that fill the channel, an empty input, a transform that fails,
\* and a small input that stays in memory.
TerminationRuns ==
    {MkArgs(<<Stream(n, pA)>>, 0, 0, 1, 1, "ok") : n \in {0, 1, MaxStreamLen}}
    \cup {MkArgs(<<Stream(MaxStreamLen \div 2, pA), Stream(MaxStreamLen \div 2, pB)>>,
                  0, 0, 1, 2, "ok")}
    \cup {MkArgs(<<Stream(3, pA), Stream(3, pB)>>, 0, 0, 1, 2, "fail_transform")}
    \cup {MkArgs(<<Stream(3, pA)>>, 1, 0, 1, 1, "ok")}

\* The reader threads of these runs: one for each shard of the input files.
ReaderIds == 1..SetMax({Len(file_shards(a.input, a.num_cores)) : a \in TerminationRuns})

\* Every thread that can take a step is scheduled in the end: each reader
\* thread, and the main thread in its writer loop.
FairStageA ==
    /\ \A i \in ReaderIds :
          WF_vars(i \in DOMAIN readers /\ (ReaderStart(i) \/ ReaderNext(i) \/ ReaderSend(i)))
    /\ WF_vars(WriterReceive \/ WriterWriteRun \/ WriterClosed)

InitStageAFair ==
    /\ \E a \in TerminationRuns : StartOfMain(a)
    /\ dec = DecIdle
    /\ glb = GlbIdle
    /\ call = NoCall

SpecStageAFair == InitStageAFair /\ [][Next]_vars /\ FairStageA

----------------------------------------------------------------------------
(* Claims about the leaf tiling and the aggregation, checked under Spec.   *)

\* The records of the input files, file after file.
RECURSIVE AllRecs(_)
AllRecs(files) ==
    IF files = <<>> THEN <<>> ELSE files[1].recs \o AllRecs(Tail(files))

\* Every file opens and every record decodes.
FailureFree(files) ==
    \A i \in DOMAIN files :
        files[i].readable /\ \A k \in DOMAIN files[i].recs : files[i].recs[k] # Bad

\* The leaf stage is over and the scratch tile directory is still there.
LeafStageDone ==
    pc \in {"aggregate", "agg_fold", "agg_write", "export"} /\ tile_dir = "exists"

FileBag(path) == IF path \in DOMAIN tiles THEN SeqToBag(tiles[path]) ELSE EmptyBag

\* The files of level z in the scratch tile directory.
LevelFiles(z) == {q \in DOMAIN tiles : q[1] = to_decimal(z)}

\* The path of the leaf file that the tile key of a reprojected point names.
KeyPath(max_zoom, p) ==
    LET zxy == zxy_from_lng_lat(max_zoom, p.x, p.y)
    IN  tile_path(zxy[1], zxy[2], zxy[3])

\* C1: after the leaf stage of a failure-free run, in either workflow, every
\* reprojected point is in the leaf file max/x/y.bin that its tile key by
\* zxy_from_lng_lat names and in no other, as often as it was read; a leaf
\* file exists only for the key of some point.
C1_LeafFilesHoldTheirPoints ==
    (LeafStageDone /\ FailureFree(args.input)) =>
        LET P == transform_points_in_place(AllRecs(args.input))
        IN  /\ \A i \in DOMAIN P : KeyPath(args.max, P[i]) \in DOMAIN tiles
            /\ \A q \in LevelFiles(args.max) :
                  LET InTile(p) == KeyPath(args.max, p) = q
                  IN  /\ SelectSeq(P, InTile) # <<>>
                      /\ FileBag(q) = SeqToBag(SelectSeq(P, InTile))

\* C1 witness: the external sort has written the leaf files of a failure-free
\* input, one of them with two points and another one beside it.
C1_Witness ==
    /\ pc = "aggregate"
    /\ workflow = "external"
    /\ agg_z = args.max - 1
    /\ FailureFree(args.input)
    /\ Cardinality(DOMAIN tiles) >= 2
    /\ \E q \in DOMAIN tiles : Len(tiles[q]) >= 2

\* The levels aggregate_zoom_level has returned for.
AggregatedLevels == (agg_z + 1)..(args.max - 1)

\* The paths of the four children of the tile of a path.
ChildPaths(q) ==
    LET t == extract_tile_coords(q)
    IN  {tile_path(t[1] + 1, 2 * t[2] + a, 2 * t[3] + b) : a, b \in {0, 1}}

\* The path of the parent of the tile of a path.
ParentPath(q) ==
    LET t == extract_tile_coords(q)
    IN  tile_path(t[1] - 1, t[2] \div 2, t[3] \div 2)

RECURSIVE BagSum(_)
BagSum(paths) ==
    IF paths = {} THEN EmptyBag
    ELSE LET q == CHOOSE r \in paths : TRUE
         IN  FileBag(q) (+) BagSum(paths \ {q})

\* C2: once aggregate_zoom_level has returned for level z, every parent file
\* z/x/y.bin holds, as a multiset, the points of its existing child files
\* (z+1)/(2x+a)/(2y+b).bin together, however the fold was split.
C2_ParentIsUnionOfChildren ==
    LeafStageDone =>
        \A z \in AggregatedLevels : \A q \in LevelFiles(z) :
            FileBag(q) = BagSum(ChildPaths(q))

\* C2 witness: a level has been aggregated and one of its parents has two
\* child files, with three points between them.
C2_Witness ==
    /\ pc = "aggregate"
    /\ tile_dir = "exists"
    /\ \E z \in AggregatedLevels : \E q \in LevelFiles(z) :
          /\ Cardinality(ChildPaths(q) \cap DOMAIN tiles) >= 2
          /\ Len(tiles[q]) >= 3

\* C3: once aggregate_zoom_level has returned for level z, a file z/x/y.bin
\* exists exactly when one of its child files exists, and it has been
\* written exactly once.
C3_ParentExistsIffChildExists ==
    LeafStageDone =>
        \A z \in AggregatedLevels :
            /\ \A q \in LevelFiles(z) :
                  /\ ChildPaths(q) \cap DOMAIN tiles # {}
                  /\ created[q] = 1
            /\ \A c \in LevelFiles(z + 1) : ParentPath(c) \in LevelFiles(z)

\* C3 witness: two levels have been aggregated; the upper one has a parent
\* with a child file and a child tile without a file.
C3_Witness ==
    /\ pc = "aggregate"
    /\ tile_dir = "exists"
    /\ Cardinality(AggregatedLevels) >= 2
    /\ \E q \in LevelFiles(agg_z + 1) :
          /\ ChildPaths(q) \cap DOMAIN tiles # {}
          /\ ChildPaths(q) \ DOMAIN tiles # {}

\* A step of the aggregation of level agg_z leaves the files of the other
\* levels as they are and creates files at level agg_z only.
AggregationStepKeepsOtherLevels ==
    pc \in {"aggregate", "agg_fold", "agg_write"} =>
        /\ \A q \in DOMAIN tiles :
              q[1] # to_decimal(agg_z) => (q \in DOMAIN tiles' /\ tiles'[q] = tiles[q])
        /\ \A q \in DOMAIN tiles' :
              q \notin DOMAIN tiles => q[1] = to_decimal(agg_z)

\* When the export starts every file written is there and listed, with a
\* file at every level min..max if there is any file.
AllLevelsPresentForExport ==
    (pc = "export" /\ args.min <= args.max) =>
        /\ DOMAIN tiles = DOMAIN created
        /\ Range(fold.items) = DOMAIN tiles
        /\ tiles # EmptyMap =>
              \A z \in args.min..args.max : \E q \in DOMAIN tiles : q[1] = to_decimal(z)

\* C4: while level agg_z is aggregated no file of another level is
\* created, changed or removed; and when the export starts, the files of
\* every level min..max are all there.
C4_OtherLevelsUnchanged ==
    [][AggregationStepKeepsOtherLevels]_vars /\ []AllLevelsPresentForExport

\* C4 witness: the export starts over the files of three levels, with more
\* leaf files than parents.
C4_Witness ==
    /\ pc = "export"
    /\ tile_contents = <<>>
    /\ args.max - args.min >= 2
    /\ Cardinality({q \in DOMAIN tiles : q[1] = to_decimal(args.max)}) >= 2
    /\ Cardinality({q \in DOMAIN tiles : q[1] = to_decimal(args.min)}) = 1

----------------------------------------------------------------------------
(* Claims about the workflow selector and the failures, checked under Spec. *)

RECURSIVE FileSizeSum(_)
FileSizeSum(files) ==
    IF files = <<>> THEN 0 ELSE Head(files).size + FileSizeSum(Tail(files))

InMemoryPcs == {"im_check", "im_transform", "im_group", "im_write"}

ExternalPcs == {"ex_start", "ex_spawn", "ex_writer", "ex_sort", "ex_groups"}

\* C5: the in-memory workflow is chosen exactly when the sizes of the input
\* files sum to at most max_memory_mb * 1024 * 1024 bytes, the external sort
\* otherwise; and a run never enters the workflow that was not chosen.
C5_WorkflowBySize ==
    /\ workflow = "none" <=> pc = "main"
    /\ workflow = "in_memory" <=>
          (pc # "main" /\ FileSizeSum(args.input) <= args.max_memory_mb * 1024 * 1024)
    /\ workflow = "external" <=>
          (pc # "main" /\ FileSizeSum(args.input) > args.max_memory_mb * 1024 * 1024)
    /\ workflow = "in_memory" =>
          (pc \notin ExternalPcs /\ run_dir = "none" /\ readers = <<>>)
    /\ workflow = "external" =>
          (pc \notin InMemoryPcs /\ all_points = <<>>)

\* C5 witness: a finished in-memory run of an input of exactly the budget's
\* size, which is more than 0.
C5_Witness ==
    /\ pc = "done"
    /\ exit_code = "ok"
    /\ workflow = "in_memory"
    /\ FileSizeSum(args.input) = args.max_memory_mb * 1024 * 1024
    /\ args.max_memory_mb > 0
    /\ points_read > 0

\* C7 as stated: a run in which next_point has returned a failure does not
\* end successfully.
C7_ReadFailureIsFatal ==
    read_errors > 0 => exit_code # "ok"

SupportedExtensions == {"las", "laz", "csv", "txt"}

\* An empty list, a path without extension, more than one extension, or an
\* extension that is not supported.
InvalidInput(paths) ==
    \/ paths = <<>>
    \/ \E i \in DOMAIN paths : paths[i].ext = ""
    \/ Cardinality({paths[i].ext : i \in DOMAIN paths}) > 1
    \/ \E i \in DOMAIN paths : paths[i].ext \notin SupportedExtensions

\* C8: a run on an invalid input set never reads a point, writes no file
\* under the output directory, and ends with a failure if it ends.
C8_InvalidInputFailsEarly ==
    InvalidInput(args.input) =>
        /\ points_read = 0
        /\ read_errors = 0
        /\ out_dir.glbs = EmptyMap
        /\ ~out_dir.tileset
        /\ exit_code # "ok"
        /\ pc \in {"main", "im_check", "ex_start", "ex_spawn", "done"}
        /\ pc = "done" => exit_code = "fail"

\* C8 witness: the external sort has ended in a failure on two files of two
\* supported extensions.
C8_Witness ==
    /\ pc = "done"
    /\ exit_code = "fail"
    /\ workflow = "external"
    /\ Len(args.input) = 2
    /\ args.input[1].ext \in SupportedExtensions
    /\ args.input[2].ext \in SupportedExtensions
    /\ args.input[1].ext # args.input[2].ext

----------------------------------------------------------------------------
(* The memory of Stage A, checked under SpecStageA.                        *)

RECURSIVE SumLen(_)
SumLen(chunks) == IF chunks = <<>> THEN 0 ELSE Len(Head(chunks)) + SumLen(Tail(chunks))

\* The bytes of the points in the buffers of the reader threads, in the
\* channel and with the writer loop.
HeldBytes ==
    point_size *
        (SumLen([i \in DOMAIN readers |-> readers[i].buffer \o readers[i].to_send])
         + SumLen(chan) + Len(writer.chunk))

\* One chunk for each reader thread and for the writer loop, and the
\* channel's least capacity of two chunks for each core.
FixedOverhead ==
    (3 * args.num_cores + 1) * default_chunk_points_len * point_size

----------------------------------------------------------------------------
(* Claims about the voxel decimator, checked under SpecDec.                *)

VoxelsOf(points, voxel_size) ==
    {get_voxel_index(points[i], voxel_size) : i \in DOMAIN points}

PointDist(point, voxel_size) ==
    squared_distance(point,
        get_voxel_center(get_voxel_index(point, voxel_size), voxel_size))

\* The position in the input of the point a voxel must keep: minimal squared
\* distance to the voxel centre, the earliest among equals.
VoxelWinner(points, voxel_size, voxel) ==
    LET cand == {i \in DOMAIN points : get_voxel_index(points[i], voxel_size) = voxel}
    IN  CHOOSE i \in cand :
            \A j \in cand :
                \/ PointDist(points[i], voxel_size) < PointDist(points[j], voxel_size)
                \/ /\ PointDist(points[i], voxel_size) = PointDist(points[j], voxel_size)
                   /\ i <= j

\* C9: decimate(P) holds exactly one point per occupied voxel, each an element
\* of P, and the point of a voxel is the one nearest to the voxel centre, the
\* earliest in input order among the nearest.
C9_OnePerVoxelNearestEarliest ==
    dec.stage \in {"once", "twice"} =>
        LET P == dec.points
            s == dec.voxel_size
        IN  /\ Len(dec.out) = Cardinality(VoxelsOf(P, s))
            /\ \A k \in DOMAIN dec.out : dec.out[k] \in Range(P)
            /\ \A v \in VoxelsOf(P, s) :
                   LET at == {k \in DOMAIN dec.out : get_voxel_index(dec.out[k], s) = v}
                   IN  /\ Cardinality(at) = 1
                       /\ \A k \in at : dec.out[k] = P[VoxelWinner(P, s, v)]

\* C9 witness: a decimated input with two occupied voxels, one of them holding
\* two different points at the same minimal distance.
C9_Witness ==
    /\ dec.stage = "once"
    /\ Len(dec.out) >= 2
    /\ \E i, j \in DOMAIN dec.points :
          /\ i < j
          /\ dec.points[i] # dec.points[j]
          /\ get_voxel_index(dec.points[i], dec.voxel_size)
                = get_voxel_index(dec.points[j], dec.voxel_size)
          /\ PointDist(dec.points[i], dec.voxel_size)
                = PointDist(dec.points[j], dec.voxel_size)
          /\ i = VoxelWinner(dec.points, dec.voxel_size,
                             get_voxel_index(dec.points[i], dec.voxel_size))

MortonOfPoint(point, voxel_size) ==
    LET index == get_voxel_index(point, voxel_size)
    IN  morton_encode_3d(i64(index[1]), i64(index[2]), i64(index[3]))

DistinctMortonCodes(points, voxel_size) ==
    \A i, j \in DOMAIN points :
        get_voxel_index(points[i], voxel_size) # get_voxel_index(points[j], voxel_size)
            => MortonOfPoint(points[i], voxel_size) # MortonOfPoint(points[j], voxel_size)

\* C10 as stated: decimating a decimated sequence returns the same sequence,
\* same points in the same order.
C10_IdempotentSameOrder ==
    dec.stage = "twice" => dec.again = dec.out

\* C10 amended: decimating a decimated sequence returns the same points, and
\* in the same order when no two occupied voxels share a Morton code.
C10_IdempotentSamePoints ==
    dec.stage = "twice" =>
        /\ SeqToBag(dec.again) = SeqToBag(dec.out)
        /\ DistinctMortonCodes(dec.points, dec.voxel_size) => dec.again = dec.out

\* C10 witness: a second decimation of a result with two voxels of distinct
\* Morton codes, the first decimation having dropped a point.
C10_Witness ==
    /\ dec.stage = "twice"
    /\ Len(dec.out) >= 2
    /\ Len(dec.points) > Len(dec.out)
    /\ DistinctMortonCodes(dec.points, dec.voxel_size)

\* The rearrangements of an input that keep, within every voxel, the relative
\* order of the points at the same distance from the voxel centre.
InputPermutations(points, voxel_size) ==
    LET tied(a, b) ==
            /\ get_voxel_index(points[a], voxel_size) = get_voxel_index(points[b], voxel_size)
            /\ PointDist(points[a], voxel_size) = PointDist(points[b], voxel_size)
        keeps(o) == \A i, j \in DOMAIN o : (i < j /\ tied(o[i], o[j])) => o[i] < o[j]
    IN  {[i \in DOMAIN o |-> points[o[i]]] :
            o \in {q \in Orderings(DOMAIN points) : keeps(q)}}

MortonOrdered(out, voxel_size) ==
    \A i, j \in DOMAIN out :
        i < j => ~u64_less(MortonOfPoint(out[j], voxel_size), MortonOfPoint(out[i], voxel_size))

\* C11 as stated: the output of decimate is in non-decreasing Morton order of
\* the voxel indices and is the same sequence for every rearrangement of the
\* input that keeps the order of equal-distance points within a voxel,
\* whatever the voxel indices are.
C11_SameSequenceForEveryInputOrder ==
    dec.stage = "once" =>
        /\ MortonOrdered(dec.out, dec.voxel_size)
        /\ \A Q \in InputPermutations(dec.points, dec.voxel_size) :
               decimate(Q, dec.voxel_size) = {dec.out}

\* C11 amended: the output of decimate is in non-decreasing Morton order of the
\* voxel indices, it holds the same points for every such rearrangement of the
\* input, and it is the same sequence when no two occupied voxels share a
\* Morton code.
C11_MortonOrderedSameWhenCodesDistinct ==
    dec.stage = "once" =>
        LET distinct == DistinctMortonCodes(dec.points, dec.voxel_size)
        IN  /\ MortonOrdered(dec.out, dec.voxel_size)
            /\ \A Q \in InputPermutations(dec.points, dec.voxel_size) :
                   LET outputs == decimate(Q, dec.voxel_size)
                   IN  /\ \A r \in outputs :
                              /\ MortonOrdered(r, dec.voxel_size)
                              /\ SeqToBag(r) = SeqToBag(dec.out)
                       /\ distinct => outputs = {dec.out}

\* C11 witness: two voxels of distinct Morton codes, one of a negative index,
\* returned in the opposite of their input order.
C11_Witness ==
    /\ dec.stage = "once"
    /\ Len(dec.out) = 2
    /\ DistinctMortonCodes(dec.points, dec.voxel_size)
    /\ get_voxel_index(dec.out[1], dec.voxel_size)[1] < 0
    /\ \E i, j \in DOMAIN dec.points :
          /\ i < j
          /\ dec.out[1] = dec.points[j]
          /\ dec.out[2] = dec.points[i]

----------------------------------------------------------------------------
(* Claims about the GLB encoder, checked under SpecGlb.                    *)

GlbBuilt == glb.stage = "done" /\ glb.out # Err

GlbCount == Len(glb.cloud.points)

GlbStride == IF glb.options.quantize THEN 12 ELSE 16

\* C12: extensionsUsed and extensionsRequired of every GLB built are the same
\* list, which holds KHR_mesh_quantization exactly when quantize is set,
\* EXT_meshopt_compression exactly when meshopt is set, each once, and
\* nothing else.
C12_ExtensionsFollowOptions ==
    GlbBuilt =>
        LET used == glb.out.json.extensions_used
            required == glb.out.json.extensions_required
        IN  /\ used = required
            /\ ("KHR_mesh_quantization" \in Range(required)) = glb.options.quantize
            /\ ("EXT_meshopt_compression" \in Range(required)) = glb.options.meshopt
            /\ Range(required) \subseteq {"KHR_mesh_quantization", "EXT_meshopt_compression"}
            /\ Len(required) = Cardinality(Range(required))

\* C12 witness: a GLB of a non-empty cloud built with both options.
C12_Witness ==
    /\ GlbBuilt
    /\ GlbCount > 0
    /\ glb.options.quantize
    /\ glb.options.meshopt
    /\ Len(glb.out.json.extensions_required) = 2

\* C13: without quantize the stride is 16, POSITION is a FLOAT accessor, not
\* normalized, COLOR_0 is at byte offset 12 and the node has the default
\* scale; with quantize the stride is 12, POSITION is a normalized
\* UNSIGNED_SHORT accessor, COLOR_0 is at byte offset 8 and the node scale is
\* (s, s, s); both accessors count n, and without meshopt the BIN chunk is
\* n times the stride long.
C13_LayoutFollowsQuantize ==
    GlbBuilt =>
        LET json == glb.out.json
            view == json.buffer_views[1]
            position == json.accessors[json.attributes.POSITION + 1]
            color == json.accessors[json.attributes.COLOR_0 + 1]
            node == json.nodes[1]
        IN  /\ Len(json.buffer_views) = 1
            /\ position.buffer_view = 0 /\ color.buffer_view = 0
            /\ IF glb.options.quantize
               THEN /\ view.byte_stride = Some(12)
                    /\ position.component_type = 5123
                    /\ position.normalized
                    /\ color.byte_offset = 8
                    /\ node.scale[1] = node.scale[2] /\ node.scale[2] = node.scale[3]
               ELSE /\ view.byte_stride = Some(16)
                    /\ position.component_type = 5126
                    /\ ~position.normalized
                    /\ color.byte_offset = 12
                    /\ node.scale = Node_default_scale
            /\ position.count = GlbCount
            /\ color.count = GlbCount
            /\ ~glb.options.meshopt => glb.out.bin = GlbCount * GlbStride

\* C13 witness: a quantized, uncompressed GLB of two points with a scale
\* other than the default.
C13_Witness ==
    /\ GlbBuilt
    /\ GlbCount = 2
    /\ glb.options.quantize
    /\ ~glb.options.meshopt
    /\ glb.out.json.nodes[1].scale # Node_default_scale
    /\ glb.out.bin = 24

\* C14: with meshopt there are exactly two buffers, buffer 0 as long as the
\* BIN chunk (the compressed size), buffer 1 as long as n times the stride
\* and marked as fallback, and one bufferView on buffer 1 whose
\* EXT_meshopt_compression extension names buffer 0, count n, the vertex
\* stride and mode ATTRIBUTES; without meshopt and with n > 0 there is
\* exactly one buffer.
C14_MeshoptTwoBuffers ==
    GlbBuilt =>
        LET json == glb.out.json
            view == json.buffer_views[1]
        IN  IF glb.options.meshopt
            THEN /\ Len(json.buffers) = 2
                 /\ json.buffers[1].byte_length = glb.out.bin
                 /\ json.buffers[1].ext_meshopt_compression = None
                 /\ json.buffers[2].byte_length = GlbCount * GlbStride
                 /\ json.buffers[2].ext_meshopt_compression = Some([fallback |-> TRUE])
                 /\ Len(json.buffer_views) = 1
                 /\ view.buffer = 1
                 /\ view.ext_meshopt_compression.some
                 /\ view.ext_meshopt_compression.value.buffer = 0
                 /\ view.ext_meshopt_compression.value.byte_length = glb.out.bin
                 /\ view.ext_meshopt_compression.value.count = GlbCount
                 /\ view.ext_meshopt_compression.value.byte_stride = GlbStride
                 /\ view.ext_meshopt_compression.value.mode = "ATTRIBUTES"
            ELSE GlbCount > 0 => Len(json.buffers) = 1

\* C14 witness: a compressed GLB of two quantized points whose compressed
\* size differs from the uncompressed one.
C14_Witness ==
    /\ GlbBuilt
    /\ GlbCount = 2
    /\ glb.options.quantize
    /\ glb.options.meshopt
    /\ glb.out.bin # 24

----------------------------------------------------------------------------
(* Claims about the export stage, checked under Spec.                      *)

ExportSucceeded == pc = "tileset" \/ (pc = "done" /\ exit_code = "ok")

ContentPaths == {tile_contents[i].content_path : i \in DOMAIN tile_contents}

\* The tile files the run has created at the levels that are exported.
ExportedLevelFiles ==
    {q \in DOMAIN created : extract_tile_coords(q)[1] \in args.min..args.max}

\* C15: every tile file of the levels zmin..zmax is turned into exactly one
\* GLB, written once at z/x/y.glb, with exactly one TileContent record of
\* that path; no output path is written twice.
C15_OneGlbPerTile ==
    /\ \A path \in DOMAIN out_dir.glbs : out_dir.glbs[path] = 1
    /\ \A i, j \in DOMAIN tile_contents :
           i # j => tile_contents[i].content_path # tile_contents[j].content_path
    /\ DOMAIN out_dir.glbs = ContentPaths
    /\ pc = "export" =>
           /\ Range(fold.items) = ExportedLevelFiles
           /\ Len(fold.items) = Cardinality(ExportedLevelFiles)
           /\ \A i \in DOMAIN tile_contents :
                  LET zxy == extract_tile_coords(fold.items[i])
                  IN  /\ tile_contents[i].zxy = zxy
                      /\ tile_contents[i].content_path = tile_path(zxy[1], zxy[2], zxy[3])
    /\ ExportSucceeded =>
           /\ ContentPaths = ExportedLevelFiles
           /\ Cardinality(DOMAIN tile_contents) = Cardinality(ExportedLevelFiles)

\* C15 witness: an export by two workers has returned, three tiles or more
\* on two levels.
C15_Witness ==
    /\ pc = "tileset"
    /\ args.num_cores = 2
    /\ Cardinality(ContentPaths) >= 3
    /\ \E p, q \in ContentPaths : p[1] # q[1]

\* The tiles exported so far, while their files are still there.
ExportedTiles ==
    IF pc = "export" THEN {i \in DOMAIN tile_contents : fold.items[i] \in DOMAIN tiles}
    ELSE {}

GlbOfTile(i) == out_dir.glb_files[tile_contents[i].content_path]

\* The points of tile i after the reprojection to geocentric coordinates
\* and the exchange of the axes.
GeocentricPointsOfTile(i) ==
    LET points == tiles[fold.items[i]]
    IN  [k \in DOMAIN points |-> axis_swap(to_geocentric(points[k]))]

VoxelSizeOfTile(i) ==
    voxel_size_of(geometric_error(tile_contents[i].zxy[1], tile_contents[i].zxy[3]))

\* C16 as stated: the node translation of every tile GLB is the geographic
\* minimum corner of the tile, as recorded in its content record.
C16_TranslationIsGeographicMinCorner ==
    \A i \in ExportedTiles :
        GlbOfTile(i).json.nodes[1].translation
            = <<tile_contents[i].min_lng, tile_contents[i].min_lat,
                tile_contents[i].min_height>>

\* C16 amended: the node translation of every tile GLB is the minimum, axis
\* by axis, of the points the GLB holds: the points kept by the decimator,
\* in geocentric coordinates with the axes exchanged.
C16_TranslationIsGeocentricMinCorner ==
    \A i \in ExportedTiles :
        \E kept \in decimate(GeocentricPointsOfTile(i), VoxelSizeOfTile(i)) :
            /\ GlbOfTile(i).json.nodes[1].translation = PointCloud_new(kept).metadata.offset
            /\ GlbOfTile(i).json.accessors[1].count = Len(kept)

\* C16 witness: a GLB of a tile of two points or more, one of them dropped
\* by the decimator, whose translation is not the geographic corner.
C16_Witness ==
    \E i \in ExportedTiles :
        /\ Len(tiles[fold.items[i]]) >= 2
        /\ GlbOfTile(i).json.accessors[1].count < Len(tiles[fold.items[i]])
        /\ GlbOfTile(i).json.nodes[1].translation
              # <<tile_contents[i].min_lng, tile_contents[i].min_lat,
                  tile_contents[i].min_height>>

----------------------------------------------------------------------------
(* Claims about the workflows as a whole, checked under Spec.              *)

AggregationPcs == {"aggregate", "agg_fold", "agg_write"}

\* C17: the run-file directory exists throughout Stage A and Stage B and is
\* removed once the last leaf tile file is written, before the aggregation
\* starts; the tile directory exists from the leaf tiles to the end of the
\* export; and when the process has ended, with success or failure, neither
\* directory is left.
C17_ScratchDirectoriesReleased ==
    /\ pc \in {"ex_spawn", "ex_writer", "ex_sort", "ex_groups"} => run_dir = "exists"
    /\ (pc = "ex_groups" \/ pc = "im_write" \/ pc \in AggregationPcs \/ pc = "export")
           => tile_dir = "exists"
    /\ (workflow = "external" /\ (pc \in AggregationPcs \/ pc \in {"export", "tileset"}))
           => run_dir = "removed"
    /\ workflow = "in_memory" => run_dir = "none"
    /\ pc = "tileset" => tile_dir = "removed"
    /\ pc = "done" => tile_dir # "exists" /\ run_dir # "exists"
    /\ run_dir # "exists" => run_files = <<>>
    /\ tile_dir # "exists" => tiles = EmptyMap

\* C17 witness: an external-sort run that failed in the export stage, both
\* of its directories removed.
C17_Witness ==
    /\ pc = "done"
    /\ exit_code = "fail"
    /\ workflow = "external"
    /\ run_dir = "removed"
    /\ tile_dir = "removed"
    /\ DOMAIN created # {}

\* C18: when the aggregation of a failure-free, non-empty input is over,
\* every level from zmin to zmax has a tile file, and the files of a level
\* hold between them every point read, once; with zmin = 0 level 0 is the
\* single file 0/0/0.bin.
C18_EveryLevelHoldsEveryPoint ==
    (pc = "export" /\ FailureFree(args.input) /\ AllRecs(args.input) # <<>>
        /\ args.min <= args.max) =>
        LET P == transform_points_in_place(AllRecs(args.input))
        IN  /\ points_read = Len(P)
            /\ \A z \in args.min..args.max :
                   /\ LevelFiles(z) # {}
                   /\ BagSum(LevelFiles(z)) = SeqToBag(P)
                   /\ BagCardinality(BagSum(LevelFiles(z))) = points_read
            /\ args.min = 0 =>
                   /\ LevelFiles(0) = {tile_path(0, 0, 0)}
                   /\ FileBag(tile_path(0, 0, 0)) = SeqToBag(P)

\* C18 witness: three levels aggregated down to the root, two leaf tiles or
\* more and three points.
C18_Witness ==
    /\ pc = "export"
    /\ FailureFree(args.input)
    /\ args.min = 0
    /\ args.max = MaxZoom
    /\ Cardinality(LevelFiles(args.max)) >= 2
    /\ Len(tiles[tile_path(0, 0, 0)]) = MaxDeepRecs


\* The stages of a run that follow the writing of the leaf tiles.
LaterPcs == AggregationPcs \cup {"export", "tileset", "done"}

LevelOf(path) == extract_tile_coords(path)[1]

\* Where a run is tells what has been written: below the leaf level there
\* is no file before the aggregation, during the aggregation of level agg_z
\* the files are those of the levels above agg_z (and, while its parents
\* are written, of agg_z), no GLB exists before the export, the export runs
\* with every level aggregated, and tileset.json exists only in a run that
\* has written the GLB of every tile file.
StagesInOrder ==
    /\ (\E q \in DOMAIN created : LevelOf(q) < args.max) => pc \in LaterPcs
    /\ pc \in AggregationPcs =>
          /\ sorted_iter = <<>>
          /\ agg_z \in (args.min - 1)..(args.max - 1)
          /\ pc = "aggregate" => tile_map = EmptyMap
          /\ \A q \in DOMAIN created :
                \/ LevelOf(q) \in (agg_z + 1)..args.max
                \/ pc = "agg_write" /\ LevelOf(q) = agg_z
    /\ out_dir.glbs # EmptyMap => pc \in {"export", "tileset", "done"}
    /\ pc = "export" =>
          /\ agg_z = args.min - 1
          /\ tile_map = EmptyMap
          /\ ~out_dir.tileset
    /\ out_dir.tileset =>
          /\ pc = "done"
          /\ DOMAIN out_dir.glbs = ContentPaths
          /\ Cardinality(ContentPaths) = Cardinality(ExportedLevelFiles)

\* A step keeps to the order of the stages: the level aggregated changes
\* only to zmax - 1 at the end of the leaf stage and from z to z - 1 at the
\* end of the aggregation of z >= zmin; the aggregation of a level starts
\* with no file of that level yet and the files of the level above stay as
\* they are to the end of the export; the export starts from the loop head
\* with no level left; tileset.json is written after export_tiles_to_glb
\* has returned.
StageStep ==
    /\ agg_z' # agg_z =>
          \/ pc \in {"im_write", "ex_groups"} /\ pc' = "aggregate" /\ agg_z' = args.max - 1
          \/ /\ pc = "agg_write" /\ pc' = "aggregate"
             /\ tile_map = EmptyMap
             /\ agg_z >= args.min
             /\ agg_z' = agg_z - 1
    /\ (pc = "aggregate" /\ pc' = "agg_fold") =>
          /\ LevelFiles(agg_z) = {}
          /\ Range(fold'.items) = LevelFiles(agg_z + 1)
    /\ (pc \in AggregationPcs \/ (pc = "export" /\ pc' = "export")) =>
          \A q \in DOMAIN tiles :
              LevelOf(q) > agg_z => (q \in DOMAIN tiles' /\ tiles'[q] = tiles[q])
    /\ (pc # "export" /\ pc' = "export") => (pc = "aggregate" /\ agg_z < args.min)
    /\ (~out_dir.tileset /\ out_dir'.tileset) =>
          /\ pc = "tileset"
          /\ DOMAIN out_dir.glbs = ContentPaths
          /\ out_dir'.glbs = out_dir.glbs

\* C19: the stages run one after another: the leaf tiles are all written
\* before any aggregation, the levels are aggregated once each from
\* zmax - 1 down to zmin, each over the finished files of the level above,
\* the export starts after the aggregation of zmin, and tileset.json is
\* written after every GLB.
C19_StagesRunOneAfterAnother ==
    [][StageStep]_vars /\ []StagesInOrder

\* C19 witness: a finished run over three levels, with tileset.json and the
\* GLB of more than one leaf tile.
C19_Witness ==
    /\ pc = "done"
    /\ out_dir.tileset
    /\ args.max - args.min >= 2
    /\ agg_z = args.min - 1
    /\ Cardinality({q \in DOMAIN created : LevelOf(q) = args.max}) >= 2
    /\ Cardinality(DOMAIN out_dir.glbs) >= 4



----------------------------------------------------------------------------
(* Claims about the run files of Stage A, checked under Spec.              *)

SortedByKey(pairs) == \A i \in 1..(Len(pairs) - 1) : pairs[i][1] <= pairs[i + 1][1]

WithKey(pairs, k) == SelectSeq(pairs, LAMBDA e : e[1] = k)

\* file holds the pairs in key order, those of one key in the order they
\* have in pairs.
IsStableSortOf(file, pairs) ==
    /\ Len(file) = Len(pairs)
    /\ SortedByKey(file)
    /\ \A k \in {pairs[i][1] : i \in DOMAIN pairs} \cup {file[i][1] : i \in DOMAIN file} :
          WithKey(file, k) = WithKey(pairs, k)

\* The chunks a reader thread sends for n points: full chunks and a last
\* shorter one.
ChunksOf(n) == (n + default_chunk_points_len - 1) \div default_chunk_points_len

RECURSIVE SumOver(_, _)
SumOver(f, n) == IF n = 0 THEN 0 ELSE f[n] + SumOver(f, n - 1)

\* The chunks the reader threads send for a failure-free input.
ExpectedChunks ==
    LET shards == file_shards(args.input, args.num_cores)
        per == [i \in DOMAIN shards |-> ChunksOf(Len(AllRecs(shards[i])))]
    IN  SumOver(per, Len(shards))

\* The chunks that have left a reader thread: in the channel, held by the
\* writer loop, or written.
ChunksAccounted ==
    Len(chan) + (IF writer.holding THEN 1 ELSE 0) + Len(run_files)

\* The sends that a step completes, seen from the reader threads.
SentInStep ==
    Cardinality({i \in DOMAIN readers :
        /\ readers[i].pc \in {"sending", "last_send"}
        /\ readers'[i].pc \notin {"sending", "last_send"}})

\* Every run file is a chunk in key order with the Hilbert id of each
\* point as its key; when the writer loop has ended, every chunk sent is a
\* run file.
RunFilesInOrder ==
    /\ \A n \in DOMAIN run_files :
          /\ run_files[n] # <<>>
          /\ Len(run_files[n]) <= default_chunk_points_len
          /\ SortedByKey(run_files[n])
          /\ \A i \in DOMAIN run_files[n] :
                run_files[n][i][1] = leaf_tile_id(args.max, run_files[n][i][2])
    /\ pc = "ex_sort" =>
          /\ chan = <<>>
          /\ ~writer.holding
          /\ (FailureFree(args.input) /\ args.proj = "ok") => Len(run_files) = ExpectedChunks

\* In the writer loop a step that sends a chunk adds one to the chunks
\* accounted for and no other step changes their number; a chunk is
\* received from the head of the channel with no file written; and a run
\* file is written only as the next file, run_<n>.bin with n the number of
\* files before it, the files before it left as they are, and it is the
\* stable sort of the chunk the loop holds.
RunFileStep ==
    (pc = "ex_writer" /\ pc' = "ex_writer") =>
        /\ ChunksAccounted' = ChunksAccounted + SentInStep
        /\ (writer'.holding /\ ~writer.holding) =>
              /\ chan # <<>>
              /\ writer'.chunk = Head(chan)
              /\ run_files' = run_files
        /\ run_files' # run_files =>
              /\ writer.holding
              /\ ~writer'.holding
              /\ Len(run_files') = Len(run_files) + 1
              /\ SubSeq(run_files', 1, Len(run_files)) = run_files
              /\ IsStableSortOf(run_files'[Len(run_files')],
                                [i \in DOMAIN writer.chunk |->
                                    <<leaf_tile_id(args.max, writer.chunk[i]), writer.chunk[i]>>])

\* C20: every run file holds its pairs in non-decreasing order of the
\* Hilbert id, pairs of one id in the order of the chunk received; each
\* chunk received is written to one run file, numbered from 0 without gap
\* or reuse, and the run files are as many as the chunks sent.
C20_RunFilesSortedOnePerChunk ==
    [][RunFileStep]_vars /\ []RunFilesInOrder

\* C20 witness: the writer loop has ended with three run files or more, one
\* with its points put in another order than received, one with two
\* different points of one key.
C20_Witness ==
    /\ pc = "ex_sort"
    /\ Len(run_files) >= 3
    /\ \E n \in DOMAIN run_files :
          \E i \in 1..(Len(run_files[n]) - 1) :
              /\ run_files[n][i][1] = run_files[n][i + 1][1]
              /\ run_files[n][i][2] # run_files[n][i + 1][2]
    /\ \E n \in DOMAIN run_files :
          LET chunk == SubSeq(transform_points_in_place(MixedRecs),
                              (n - 1) * default_chunk_points_len + 1,
                              IF n * default_chunk_points_len < Len(MixedRecs)
                              THEN n * default_chunk_points_len ELSE Len(MixedRecs))
          IN  /\ args.input = <<MkFile("csv", MixedRecs, BytesPerMb)>>
              /\ [i \in DOMAIN run_files[n] |-> run_files[n][i][2]] # chunk



----------------------------------------------------------------------------
(* Claims about Stage B and the failures of Stage A, checked under Spec.   *)

\* The points that the run files hold under the keys of a leaf path.
RunPointsOf(path) ==
    LET pairs == RunFileIterator(run_files)
        HasPath(pair) == leaf_path(pair[1]) = path
        chosen == SelectSeq(pairs, HasPath)
    IN  [i \in DOMAIN chosen |-> chosen[i][2]]

RunKeys == {RunFileIterator(run_files)[i][1] : i \in DOMAIN RunFileIterator(run_files)}

StreamKeys == {sorted_iter[i][1] : i \in DOMAIN sorted_iter}

\* C21: in Stage B the stream that is grouped is in key order over all run
\* files, so a key has one group: every leaf file has been created once,
\* holds every point that the run files have under its key, and no pair of
\* its key is left in the stream to overwrite it; a key of the run files is
\* either still in the stream or has its file.
C21_OneGroupPerLeafTile ==
    pc = "ex_groups" =>
        /\ SortedByKey(sorted_iter)
        /\ \A q \in DOMAIN created : created[q] = 1
        /\ DOMAIN tiles = DOMAIN created
        /\ \A q \in DOMAIN tiles :
              /\ FileBag(q) = SeqToBag(RunPointsOf(q))
              /\ tiles[q] # <<>>
              /\ \A k \in StreamKeys : leaf_path(k) # q
        /\ \A k \in RunKeys : k \in StreamKeys \/ leaf_path(k) \in DOMAIN tiles
        /\ \A k1, k2 \in RunKeys : leaf_path(k1) = leaf_path(k2) => k1 = k2

\* C21 witness: the stream is used up, with two leaf files written from
\* three run files or more, one of them with points of two run files.
C21_Witness ==
    /\ pc = "ex_groups"
    /\ sorted_iter = <<>>
    /\ Len(run_files) >= 3
    /\ Cardinality(DOMAIN tiles) >= 2
    /\ \E q \in DOMAIN tiles :
          \E m, n \in DOMAIN run_files :
              /\ m # n
              /\ \E i \in DOMAIN run_files[m] : leaf_path(run_files[m][i][1]) = q
              /\ \E i \in DOMAIN run_files[n] : leaf_path(run_files[n][i][1]) = q



Blocked(i) == i \in DOMAIN readers /\ readers[i].pc \in {"sending", "last_send"}

\* C22: with every thread scheduled in the end, Stage A ends: the readers
\* all come to the end of their loop and drop their senders, the writer
\* loop then leaves with the channel empty, and the joins return (the
\* sort, or the failure of a panicked reader, follows); a reader that
\* waits to send is let through.
C22_StageATerminates ==
    /\ (pc = "ex_writer") ~> (pc = "ex_writer" /\ AllSendersDropped)
    /\ (pc = "ex_writer") ~> (pc \in {"ex_sort", "done"} /\ chan = <<>> /\ ~writer.holding)
    /\ \A i \in ReaderIds : Blocked(i) ~> ~Blocked(i)

\* C22 witness: two reader threads wait to send on a full channel.
C22_Witness ==
    /\ pc = "ex_writer"
    /\ Len(chan) = channel_capacity
    /\ Cardinality(DOMAIN readers) = 2
    /\ \A i \in DOMAIN readers : Blocked(i)



RECURSIVE RecsOf(_, _)
RecsOf(files, n) == IF n = 0 THEN <<>> ELSE RecsOf(files, n - 1) \o files[n].recs

\* The points that next_point has returned to a reader thread so far.
Yielded(r) ==
    LET n == r.current_file_index
        IsPoint(rec) == rec # Bad
        before == IF n = 0 THEN <<>> ELSE RecsOf(r.files, n - 1)
        current == IF n = 0 THEN <<>> ELSE r.files[n].recs
        upto == IF r.pos < Len(current) THEN r.pos ELSE Len(current)
    IN  SelectSeq(before \o SubSeq(current, 1, upto), IsPoint)

\* The points of the chunks that a reader thread at the end of its life has
\* sent: all it was given if it left its loop, the full chunks before the
\* panic if it panicked in the reader, none if the transform fails.
SentBy(r) ==
    LET y == Yielded(r.reader)
        full == (Len(y) \div default_chunk_points_len) * default_chunk_points_len
    IN  IF r.pc = "exited" /\ args.proj \in {"ok", "fail_geocentric"}
        THEN transform_points_in_place(y)
        ELSE IF args.proj \in {"ok", "fail_geocentric"}
             THEN transform_points_in_place(SubSeq(y, 1, full))
             ELSE <<>>

RECURSIVE SentByAll(_)
SentByAll(n) == IF n = 0 THEN EmptyBag ELSE SentByAll(n - 1) (+) SeqToBag(SentBy(readers[n]))

RunFilePoints ==
    LET pairs == RunFileIterator(run_files)
    IN  SeqToBag([i \in DOMAIN pairs |-> pairs[i][2]])

SomeReaderPanicked == \E i \in DOMAIN readers : readers[i].pc = "panicked"

\* With a reader thread panicked the run goes no further than Stage A: no
\* sorted stream, no tile directory, no tile file, no GLB, no tileset.json,
\* and it ends in failure; when the channel has closed, the run files hold
\* the chunks that were sent and nothing of a buffer that was not.
PanickedReaderStopsTheRun ==
    SomeReaderPanicked =>
        /\ pc \in {"ex_writer", "done"}
        /\ pc = "done" => exit_code = "fail"
        /\ sorted_iter = <<>> /\ tile_dir = "none" /\ tiles = EmptyMap /\ created = EmptyMap
        /\ out_dir.glbs = EmptyMap /\ ~out_dir.tileset
        /\ (pc = "ex_writer" /\ AllSendersDropped /\ chan = <<>> /\ ~writer.holding) =>
              RunFilePoints = SentByAll(Len(readers))

\* The writer loop is left, with a reader panicked, only when every sender
\* is dropped and every chunk sent is written, and then for the failed end.
PanickedReaderStep ==
    (SomeReaderPanicked /\ pc = "ex_writer" /\ pc' # "ex_writer") =>
        /\ AllSendersDropped
        /\ chan = <<>>
        /\ ~writer.holding
        /\ pc' = "done"
        /\ exit_code' = "fail"

\* C23: when a reader thread panics in Stage A its unsent buffer is in no
\* run file, the writer loop still writes every chunk sent, before or
\* after, by the other readers, and then the stage fails: no Stage B, no
\* aggregation, no export, no tileset.json, and a failed exit.
C23_ReaderPanicFailsTheStage ==
    [][PanickedReaderStep]_vars /\ []PanickedReaderStopsTheRun

\* C23 witness: the channel has closed with one reader thread panicked over
\* a point it had read and the chunks of the other written.
C23_Witness ==
    /\ pc = "ex_writer"
    /\ AllSendersDropped /\ chan = <<>> /\ ~writer.holding
    /\ Len(readers) = 2
    /\ readers[1].pc = "panicked" /\ Len(Yielded(readers[1].reader)) = 1
    /\ readers[2].pc = "exited"
    /\ run_files # <<>>
    /\ BagCardinality(RunFilePoints) = points_read - 1



RECURSIVE BagOfChunks(_)
BagOfChunks(chunks) ==
    IF chunks = <<>> THEN EmptyBag ELSE SeqToBag(Head(chunks)) (+) BagOfChunks(Tail(chunks))

\* The points given to the reader threads by next_point, reprojected once.
RECURSIVE YieldedByAll(_)
YieldedByAll(n) ==
    IF n = 0 THEN EmptyBag
    ELSE YieldedByAll(n - 1) (+) SeqToBag(transform_points_in_place(Yielded(readers[n].reader)))

\* The points on their way: in a buffer (to be reprojected yet), taken for
\* sending, in the channel, held by the writer loop, or in a run file.
RECURSIVE HeldByReaders(_)
HeldByReaders(n) ==
    IF n = 0 THEN EmptyBag
    ELSE HeldByReaders(n - 1) (+) SeqToBag(transform_points_in_place(readers[n].buffer))
                              (+) SeqToBag(readers[n].to_send)

PointsOnTheirWay ==
    HeldByReaders(Len(readers)) (+) BagOfChunks(chan) (+) SeqToBag(writer.chunk)
        (+) RunFilePoints

IsChunk(c) == c # <<>> /\ Len(c) <= default_chunk_points_len

\* While the writer loop runs and no reader has panicked, the points
\* yielded, reprojected once, are those on their way, each once; a buffer
\* is never full between two turns of the loop; whatever has left a buffer
\* is a chunk of 1 to chunk_size points.
EveryPointInOneChunk ==
    (pc = "ex_writer" /\ ~SomeReaderPanicked) =>
        /\ YieldedByAll(Len(readers)) = PointsOnTheirWay
        /\ \A i \in DOMAIN readers :
              /\ Len(readers[i].buffer) < default_chunk_points_len
              /\ Blocked(i) <=> readers[i].to_send # <<>>
              /\ Blocked(i) => IsChunk(readers[i].to_send)
              /\ readers[i].pc = "exited" => readers[i].buffer = <<>>
        /\ \A n \in DOMAIN chan : IsChunk(chan[n])
        /\ writer.holding => IsChunk(writer.chunk)
        /\ \A n \in DOMAIN run_files : IsChunk(run_files[n])

\* A chunk enters the channel from a reader that waits to send; inside the
\* loop it is a full chunk, and a shorter one is sent after the loop, as
\* the reader's last.
ChunkSendStep ==
    (pc = "ex_writer" /\ Len(chan') > Len(chan)) =>
        \E i \in DOMAIN readers :
            /\ Blocked(i)
            /\ chan' = Append(chan, readers[i].to_send)
            /\ readers[i].pc = "sending" =>
                  Len(readers[i].to_send) = default_chunk_points_len
            /\ readers[i].pc = "last_send" =>
                  /\ Len(readers[i].to_send) \in 1..(default_chunk_points_len - 1)
                  /\ readers'[i].pc = "exited"
            /\ readers'[i].to_send = <<>>

----------------------------------------------------------------------------
(* Claims about morton_encode_3d, checked under SpecMorton.                *)

InRange(index) == \A k \in 1..3 : index[k].small /\ index[k].n \in (-Pow2(20))..(Pow2(20) - 1)

\* The bits of x + 2^20, y + 2^20 and z + 2^20 taken in turn: bit k of x at
\* 3k, of y at 3k + 1, of z at 3k + 2.
Interleaved(index) ==
    LET biased(k) == {b \in 0..20 : ((index[k].n + Pow2(20)) \div Pow2(b)) % 2 = 1}
    IN  {3 * b : b \in biased(1)} \cup {3 * b + 1 : b \in biased(2)}
            \cup {3 * b + 2 : b \in biased(3)}

\* a and b are the same but on axis k, where a is the lesser.
LessOnAxis(a, b, k) ==
    /\ a[k].n < b[k].n
    /\ \A j \in 1..3 : j # k => a[j] = b[j]

MortonDone == call.fn = "morton_encode_3d" /\ call.stage = "done"

\* C25: morton_encode_3d has a value, a 64-bit word, for every index, the
\* negative ones and those whose offset sum wraps included; for indices in
\* [-2^20, 2^20) on each axis the value is the interleaving of the bits of
\* the indices offset by 2^20, it is different for different indices, it
\* grows with the index on each axis, and it is not 0 for (0, 0, 0).
C25_MortonInterleavesBiasedIndices ==
    MortonDone =>
        /\ call.code_a \subseteq 0..63
        /\ call.code_b \subseteq 0..63
        /\ InRange(call.a) => call.code_a = Interleaved(call.a)
        /\ InRange(call.b) => call.code_b = Interleaved(call.b)
        /\ (InRange(call.a) /\ InRange(call.b)) =>
              /\ (call.code_a = call.code_b) <=> (call.a = call.b)
              /\ \A k \in 1..3 :
                    /\ LessOnAxis(call.a, call.b, k) => u64_less(call.code_a, call.code_b)
                    /\ LessOnAxis(call.b, call.a, k) => u64_less(call.code_b, call.code_a)
        /\ call.b = [k \in 1..3 |-> Index(0)] => u64_less({}, call.code_b)

\* C25 witness: the codes of two indices in range that differ on one axis,
\* one of them negative there, the other 0.
C25_Witness ==
    /\ MortonDone
    /\ InRange(call.a) /\ InRange(call.b)
    /\ LessOnAxis(call.a, call.b, 2)
    /\ call.a[2].n = -1 /\ call.b[2].n = 0
    /\ call.a[1].n = Pow2(20) - 1 /\ call.a[3].n = -Pow2(20)



----------------------------------------------------------------------------
(* Claims about OctreeNode::build, checked under SpecOctree.               *)

\* level + 1 and 2 c + d as numbers of any size, in bits.
Succ(a) ==
    LET m == CHOOSE i \in 0..32 : i \notin a /\ \A j \in 0..(i - 1) : j \in a
    IN  (a \ (0..(m - 1))) \cup {m}

Doubled(a, d) == {b + 1 : b \in a} \cup (IF d = 1 THEN {0} ELSE {})

\* The half of [lo, hi] that child i has on an axis.
HalfOf(lo, hi, upper) ==
    IF upper THEN <<(lo + hi) \div 2, hi>> ELSE <<lo, (lo + hi) \div 2>>

\* node is the complete octree of depth d over box, with the tile
\* coordinates (l, x, y, z) at its root.
RECURSIVE IsCompleteOctree(_, _, _, _)
IsCompleteOctree(node, box, t, d) ==
    /\ node # Panicked
    /\ node.bounding_volume = box
    /\ node.tile_coord = [level |-> t[1], xyz |-> <<t[2], t[3], t[4]>>]
    /\ IF d = 0 THEN node.children = None
       ELSE /\ node.children.some
            /\ Len(node.children.value) = 8
            /\ \A i \in 0..7 :
                  LET up(k) == (i \div Pow2(k - 1)) % 2 = 1
                      half(k) == HalfOf(box.min[k], box.max[k], up(k))
                      child_box == [min |-> [k \in 1..3 |-> half(k)[1]],
                                    max |-> [k \in 1..3 |-> half(k)[2]]]
                      child_t == <<Succ(t[1]),
                                   Doubled(t[2], IF up(1) THEN 1 ELSE 0),
                                   Doubled(t[3], IF up(2) THEN 1 ELSE 0),
                                   Doubled(t[4], IF up(3) THEN 1 ELSE 0)>>
                  IN  IsCompleteOctree(node.children.value[i + 1], child_box, child_t, d - 1)

\* The levels of the leaves of a tree, leaf by leaf.
RECURSIVE LeafLevels(_)
LeafLevels(node) ==
    IF ~node.children.some THEN <<node.tile_coord.level>>
    ELSE LET sub == [i \in 1..8 |-> LeafLevels(node.children.value[i])]
         IN  sub[1] \o sub[2] \o sub[3] \o sub[4] \o sub[5] \o sub[6] \o sub[7] \o sub[8]

RECURSIVE SuccTimes(_, _)
SuccTimes(a, n) == IF n = 0 THEN a ELSE SuccTimes(Succ(a), n - 1)

Pow8(d) == Pow2(3 * d)

OctreeDone == call.fn = "OctreeNode::build" /\ call.stage = "done"

\* No tile coordinate of the tree leaves the u32: l + d <= u32::MAX and
\* x, y, z < 2^(32 - d).
CoordsFit(t, d) ==
    /\ SuccTimes(t[1], d) \subseteq 0..31
    /\ \A k \in 2..4 : t[k] \subseteq 0..(31 - d)

CompleteOctreeBuilt ==
    /\ IsCompleteOctree(call.out, call.bounding_box, call.tile_coords, call.depth)
    /\ Len(LeafLevels(call.out)) = Pow8(call.depth)
    /\ \A i \in DOMAIN LeafLevels(call.out) :
          LeafLevels(call.out)[i] = SuccTimes(call.tile_coords[1], call.depth)

\* C26 as stated: build returns the complete octree of depth d for every
\* box, every tile coordinates and every depth.
C26_CompleteOctreeAlways ==
    OctreeDone => CompleteOctreeBuilt

\* C26 amended: build returns the complete octree of depth d when the tile
\* coordinates of its nodes fit the u32; when they do not, it panics in a
\* build with overflow checks and returns a tree with wrapped coordinates
\* in a build without.
C26_CompleteOctreeWhenCoordsFit ==
    OctreeDone =>
        /\ CoordsFit(call.tile_coords, call.depth) => CompleteOctreeBuilt
        /\ ~CoordsFit(call.tile_coords, call.depth) =>
              /\ call.overflow_checks <=> call.out = Panicked
              /\ ~CompleteOctreeBuilt

\* C26 witness: a tree of depth 2 built over a box that is not a cube, from
\* tile coordinates other than 0 whose children still fit.
C26_Witness ==
    /\ OctreeDone
    /\ call.depth = 2
    /\ CoordsFit(call.tile_coords, call.depth)
    /\ call.tile_coords[1] = u32(3) /\ call.tile_coords[2] = u32(5)
    /\ call.tile_coords[4] = {31 - MaxOctreeDepth}
    /\ call.bounding_box.min[1] < 0
    /\ call.out # Panicked
    /\ Len(LeafLevels(call.out)) = 64



----------------------------------------------------------------------------
(* The two workflows compared, under Spec.                                 *)

\* in_memory_workflow's grouping done by one worker, point after point.
RECURSIVE FoldAll(_, _, _)
FoldAll(max_zoom, map, points) ==
    IF points = <<>> THEN map
    ELSE FoldAll(max_zoom, map_fold(max_zoom, map, Head(points)), Tail(points))

\* The leaf files that in_memory_workflow writes for an input when it runs
\* on one worker: path -> the bag of the points of the file.
InMemoryLeafFiles(input, max_zoom) ==
    LET kind == ReaderKind(check_and_get_extension(input).ext)
        points == transform_points_in_place(read_files(kind, input).points)
        tile_map_1 == FoldAll(max_zoom, EmptyMap, points)
    IN  [q \in {leaf_path(id) : id \in DOMAIN tile_map_1} |->
            SeqToBag(tile_map_1[CHOOSE id \in DOMAIN tile_map_1 : leaf_path(id) = q])]

\* C27: for an input read and reprojected without failure, the leaf files
\* that a run has written, by in_memory_workflow or by
\* external_sort_workflow and in whatever order its threads have run, are
\* those of in_memory_workflow on one worker, with the same bag of points
\* in each; so the two workflows write the same leaf tiles.
C27_WorkflowsWriteTheSameLeaves ==
    (LeafStageDone /\ FailureFree(args.input) /\ args.proj \in {"ok", "fail_geocentric"}) =>
        LET expected == InMemoryLeafFiles(args.input, args.max)
        IN  /\ workflow \in {"in_memory", "external"}
            /\ LevelFiles(args.max) = DOMAIN expected
            /\ \A q \in DOMAIN expected : FileBag(q) = expected[q]

\* C27 witness: external_sort_workflow has written two leaf files, one with
\* two different points that another point parted in the input, for an
\* input that is also run in memory.
C27_Witness ==
    /\ LeafStageDone
    /\ workflow = "external"
    /\ args.input \in DeepLists
    /\ MkArgs(args.input, 1, args.min, args.max, 1, "ok") \in Runs
    /\ fits_in_memory(estimate_total_size(args.input), 1)
    /\ Len(AllRecs(args.input)) = MaxDeepRecs
    /\ Cardinality(LevelFiles(args.max)) = 2
    /\ \E q \in LevelFiles(args.max) :
          /\ Len(tiles[q]) = 2
          /\ tiles[q][1] # tiles[q][2]
          /\ tiles[q][1] # transform_points_in_place(AllRecs(args.input))[2]
          /\ tiles[q][2] # transform_points_in_place(AllRecs(args.input))[2]



----------------------------------------------------------------------------
(* A point reader called on its own: next_point again and again, past the  *)
(* end of the stream.  Every point of the files is different from every    *)
(* other: it carries the number of its file and its place in the file.     *)

MaxReaderFiles == 3

MaxReaderRecs == 2

MaxExtraCalls == 2

PointOfFile(f, k) == [x |-> f, y |-> k, z |-> 0]

\* The lists of at most MaxReaderFiles readable files of an extension with
\* at most MaxReaderRecs points each.
ReaderFileLists(ext) ==
    UNION {{[f \in 1..n |-> MkFile(ext, [k \in 1..len[f] |-> PointOfFile(f, k)], BytesPerMb)] :
               len \in [1..n -> 0..MaxReaderRecs]} :
           n \in 0..MaxReaderFiles}

InitReader ==
    /\ StartOfMain(NoArgs)
    /\ dec = DecIdle
    /\ glb = GlbIdle
    /\ \E ext \in {"las", "csv"} : \E files \in ReaderFileLists(ext) :
          call = [fn |-> "next_point", kind |-> ReaderKind(ext), files |-> files,
                  reader |-> new_reader(ReaderKind(ext), files).reader,
                  returned |-> <<>>]

\* One call of reader.next_point(), with what it returns.
NextPointCall ==
    /\ call.fn = "next_point"
    /\ Len(call.returned) < Len(AllRecs(call.files)) + MaxExtraCalls
    /\ LET n == next_point(call.kind, call.reader)
       IN  call' = [call EXCEPT
               !.reader = n.reader,
               !.returned = Append(@, IF n.res = "point" THEN [res |-> "point", point |-> n.point]
                                      ELSE [res |-> n.res])]
    /\ UNCHANGED <<runVars, dec, glb>>

NextReader == NextPointCall

SpecReader == InitReader /\ [][NextReader]_vars

\* What the k-th call of next_point has to return for the files.
ExpectedReturn(files, k) ==
    IF k <= Len(AllRecs(files))
    THEN [res |-> "point", point |-> AllRecs(files)[k]]
    ELSE [res |-> "eos"]

\* The calls made so far have returned the points of the files in the order
\* of the files and of the points in each, and end of stream from then on.
ReturnedInFileOrder ==
    call.fn = "next_point" =>
        /\ \A k \in DOMAIN call.returned : call.returned[k] = ExpectedReturn(call.files, k)
        /\ call.reader.current_file_index <= Len(call.files)

\* A call made after end of stream was returned returns end of stream.
EndOfStreamStays ==
    (/\ call.fn = "next_point"
     /\ call.returned # <<>>
     /\ call.returned[Len(call.returned)].res = "eos"
     /\ call'.returned # call.returned)
        => call'.returned[Len(call'.returned)].res = "eos"

\* C28: a LAS or CSV reader over files that all read without failure
\* returns, call after call of next_point, every point of the first file in
\* the file's order, then those of the second, and so on, each once and
\* passing over the files without points; once the points are out every
\* call returns end of stream, and current_file_index stays at most the
\* number of files.
C28_ReaderYieldsFilesInOrderThenEnds ==
    []ReturnedInFileOrder /\ [][EndOfStreamStays]_vars

\* C28 witness: three files, the middle one without points, have been read
\* to the end and next_point has been called twice more.
C28_Witness ==
    /\ call.fn = "next_point"
    /\ call.kind = "csv"
    /\ Len(call.files) = 3
    /\ Len(call.files[1].recs) = 2
    /\ call.files[2].recs = <<>>
    /\ Len(call.files[3].recs) = 1
    /\ Len(call.returned) = 5
    /\ call.returned[3] = [res |-> "point", point |-> PointOfFile(3, 1)]
    /\ call.returned[4].res = "eos"
    /\ call.returned[5].res = "eos"
    /\ call.reader.current_file_index = 3



----------------------------------------------------------------------------
(* The buffers and the buffer view of a GLB, under SpecGlb.                *)

\* Bytes offset .. offset + length of buffer number `buffer` (from 0) exist.
InBuffer(json, buffer, offset, length) ==
    /\ buffer + 1 \in DOMAIN json.buffers
    /\ offset + length <= json.buffers[buffer + 1].byte_length

\* Every buffer view, and its meshopt extension if it has one, lies in a
\* buffer of the GLB.
BufferViewsInBuffers(json) ==
    \A i \in DOMAIN json.buffer_views :
        LET view == json.buffer_views[i]
            ext == view.ext_meshopt_compression
        IN  /\ InBuffer(json, view.buffer, view.byte_offset, view.byte_length)
            /\ ext.some =>
                  InBuffer(json, ext.value.buffer, ext.value.byte_offset, ext.value.byte_length)

\* C29 as it is stated: every GLB that generate_glb_with_options builds,
\* that of the empty cloud too, has its buffer view in one of its buffers.
C29_EveryGlbConsistent ==
    GlbBuilt => BufferViewsInBuffers(glb.out.json)

\* C29: a GLB built from a cloud with points, or with meshopt from any
\* cloud, has its buffer view, and the meshopt extension of the view, in
\* buffers of the GLB; the GLB of the empty cloud built without meshopt has
\* no buffer at all and a view of no bytes that names buffer 0.
C29_GlbConsistentUnlessEmptyAndUncompressed ==
    GlbBuilt =>
        IF glb.cloud.points # <<>> \/ glb.options.meshopt
        THEN BufferViewsInBuffers(glb.out.json)
        ELSE /\ glb.out.json.buffers = <<>>
             /\ Len(glb.out.json.buffer_views) = 1
             /\ glb.out.json.buffer_views[1].buffer = 0
             /\ glb.out.json.buffer_views[1].byte_length = 0

\* C29 witness: a quantized GLB of two points built with meshopt, whose
\* compressed buffer is longer than the fallback buffer its view names.
C29_Witness ==
    /\ GlbBuilt
    /\ glb.options.quantize /\ glb.options.meshopt
    /\ Len(glb.cloud.points) = 2
    /\ Len(glb.out.json.buffers) = 2
    /\ glb.out.json.buffer_views[1].buffer = 1
    /\ glb.out.json.buffer_views[1].ext_meshopt_compression.value.buffer = 0
    /\ glb.out.json.buffers[1].byte_length > glb.out.json.buffers[2].byte_length

\* The GLB of the empty cloud built without meshopt.
C29_EmptyCloudWitness ==
    /\ GlbBuilt
    /\ glb.cloud.points = <<>>
    /\ ~glb.options.meshopt
    /\ glb.out.json.buffers = <<>>



----------------------------------------------------------------------------
(* pointcloud_to_tiles called on its own: the worker threads fold their    *)
(* chunks into local maps and merge them, under the mutex, into the global *)
(* map.  Points are in degrees of longitude and latitude.                  *)

num_threads == 8

\* local_map.entry(tile_coords).or_default().push(point.clone()) for every
\* point of the chunk and every z of min_zoom..=max_zoom.
RECURSIVE local_map_of(_, _, _, _)
local_map_of(chunk, min_zoom, max_zoom, map) ==
    IF chunk = <<>> THEN map
    ELSE LET point == Head(chunk)
             zooms == [k \in 1..(max_zoom - min_zoom + 1) |-> min_zoom + k - 1]
             pushed[k \in 0..Len(zooms)] ==
                 IF k = 0 THEN map
                 ELSE entry_append(pushed[k - 1],
                                   zxy_from_lng_lat(zooms[k], point.x, point.y), <<point>>)
         IN  local_map_of(Tail(chunk), min_zoom, max_zoom, pushed[Len(zooms)])

\* A mutant: a key of the local map takes the place of the global entry.
global_map_insert(global_map, local_map) ==
    [k \in DOMAIN global_map \cup DOMAIN local_map |->
        IF k \in DOMAIN local_map THEN local_map[k] ELSE global_map[k]]

\* for (key, points) in local_map { global_map.entry(key).or_default().extend(points) }
global_map_extend(global_map, local_map) ==
    [k \in DOMAIN global_map \cup DOMAIN local_map |->
        (IF k \in DOMAIN global_map THEN global_map[k] ELSE <<>>)
            \o (IF k \in DOMAIN local_map THEN local_map[k] ELSE <<>>)]

\* pointcloud.points.chunks(chunk_size), for a chunk_size above 0.
point_chunks(points, chunk_size) ==
    LET count == (Len(points) + chunk_size - 1) \div chunk_size
    IN  [i \in 1..count |->
            SubSeq(points, (i - 1) * chunk_size + 1,
                   IF i * chunk_size < Len(points) THEN i * chunk_size ELSE Len(points))]

MaxTilesLen == 2

TilePoints == Range(transform_points_in_place(<<pA, pB, pC, pD>>))

\* More points than threads, each different from every other, so that the
\* chunks hold two points.
LongTileInput ==
    LET base == transform_points_in_place(<<pA, pB, pC, pD>>)
    IN  [i \in 1..(num_threads + 1) |-> [base[((i - 1) % 4) + 1] EXCEPT !.z = i]]

TileInputs == UNION {[1..n -> TilePoints] : n \in 0..MaxTilesLen} \cup {LongTileInput}

TileZooms == {<<0, 1>>, <<1, 1>>, <<1, 0>>}

InitTiles ==
    /\ StartOfMain(NoArgs)
    /\ dec = DecIdle
    /\ glb = GlbIdle
    /\ \E P \in TileInputs, zooms \in TileZooms :
          call = [fn |-> "pointcloud_to_tiles", stage |-> "input", points |-> P,
                  min_zoom |-> zooms[1], max_zoom |-> zooms[2],
                  workers |-> <<>>, global_map |-> EmptyMap, mutex |-> 0,
                  result |-> <<>>]

\* The chunks are cut and a thread is spawned for each; chunks(0) panics.
TilesSpawn ==
    /\ call.fn = "pointcloud_to_tiles"
    /\ call.stage = "input"
    /\ LET chunk_size == (Len(call.points) + num_threads - 1) \div num_threads
       IN  IF chunk_size = 0
           THEN call' = [call EXCEPT !.stage = "panicked"]
           ELSE LET chunks == point_chunks(call.points, chunk_size)
                IN  call' = [call EXCEPT
                        !.stage = "spawned",
                        !.workers = [i \in DOMAIN chunks |->
                                        [pc |-> "fold", chunk |-> chunks[i],
                                         local_map |-> EmptyMap]]]
    /\ UNCHANGED <<runVars, dec, glb>>

\* A worker fills its local map.
WorkerFold(i) ==
    /\ call.fn = "pointcloud_to_tiles"
    /\ call.stage = "spawned"
    /\ call.workers[i].pc = "fold"
    /\ call' = [call EXCEPT
           !.workers[i].pc = "lock",
           !.workers[i].local_map =
               local_map_of(call.workers[i].chunk, call.min_zoom, call.max_zoom, EmptyMap)]
    /\ UNCHANGED <<runVars, dec, glb>>

\* tile_point_clouds.lock(): the worker waits for the mutex and takes it.
WorkerLock(i) ==
    /\ call.fn = "pointcloud_to_tiles"
    /\ call.stage = "spawned"
    /\ call.workers[i].pc = "lock"
    /\ call.mutex = 0
    /\ call' = [call EXCEPT !.mutex = i, !.workers[i].pc = "merge"]
    /\ UNCHANGED <<runVars, dec, glb>>

\* The worker merges its local map and drops the guard as it ends.
WorkerMerge(i) ==
    /\ call.fn = "pointcloud_to_tiles"
    /\ call.stage = "spawned"
    /\ call.workers[i].pc = "merge"
    /\ call.mutex = i
    /\ call' = [call EXCEPT
           !.global_map = global_map_extend(@, call.workers[i].local_map),
           !.mutex = 0,
           !.workers[i].pc = "done"]
    /\ UNCHANGED <<runVars, dec, glb>>

\* Every thread is joined and the map is turned into the result, in the
\* order the HashMap gives its entries, whichever that is.
TilesCollect ==
    /\ call.fn = "pointcloud_to_tiles"
    /\ call.stage = "spawned"
    /\ \A i \in DOMAIN call.workers : call.workers[i].pc = "done"
    /\ \E o \in Orderings(DOMAIN call.global_map) :
          call' = [call EXCEPT
              !.stage = "done",
              !.result = [k \in DOMAIN o |-> <<o[k], PointCloud_new(call.global_map[o[k]])>>]]
    /\ UNCHANGED <<runVars, dec, glb>>

NextTiles ==
    \/ TilesSpawn
    \/ \E i \in DOMAIN call.workers : WorkerFold(i)
    \/ \E i \in DOMAIN call.workers : WorkerLock(i)
    \/ \E i \in DOMAIN call.workers : WorkerMerge(i)
    \/ TilesCollect

SpecTiles == InitTiles /\ [][NextTiles]_vars

CountIn(seq, e) == Cardinality({i \in DOMAIN seq : seq[i] = e})

\* The tiles of zoom z of the result, as places in the result.
TilesOfZoom(z) == {k \in DOMAIN call.result : call.result[k][1][1] = z}

RECURSIVE SumOfCounts(_, _)
SumOfCounts(K, e) ==
    IF K = {} THEN 0
    ELSE LET k == CHOOSE x \in K : TRUE
         IN  CountIn(call.result[k][2].points, e) + SumOfCounts(K \ {k}, e)

RECURSIVE SumOfLens(_)
SumOfLens(K) ==
    IF K = {} THEN 0
    ELSE LET k == CHOOSE x \in K : TRUE
         IN  Len(call.result[k][2].points) + SumOfLens(K \ {k})

\* The result holds each key once, only keys of the zoom range, and at each
\* zoom of the range every input point as often as the input does, in the
\* tile zxy_from_lng_lat gives for it.
TilesRight ==
    /\ \A j, k \in DOMAIN call.result : j # k => call.result[j][1] # call.result[k][1]
    /\ \A k \in DOMAIN call.result :
          /\ call.result[k][1][1] \in call.min_zoom..call.max_zoom
          /\ \A n \in DOMAIN call.result[k][2].points :
                LET p == call.result[k][2].points[n]
                IN  call.result[k][1] = zxy_from_lng_lat(call.result[k][1][1], p.x, p.y)
    /\ \A z \in call.min_zoom..call.max_zoom :
          /\ SumOfLens(TilesOfZoom(z)) = Len(call.points)
          /\ \A p \in Range(call.points) :
                SumOfCounts(TilesOfZoom(z), p) = CountIn(call.points, p)

TilesCalled == call.fn = "pointcloud_to_tiles"

\* C30 as it is stated: pointcloud_to_tiles returns for every input, the
\* empty cloud too, and what it returns is right.
C30_TilesRightForEveryInput ==
    TilesCalled =>
        /\ call.stage # "panicked"
        /\ call.stage = "done" => TilesRight

\* C30: for a cloud with points, however the worker threads take turns at
\* the mutex, pointcloud_to_tiles returns each tile key once and at every
\* zoom of min_zoom..max_zoom every point once, in the tile that
\* zxy_from_lng_lat gives for it, so that the tiles of a zoom hold as many
\* points as the input; for the empty cloud it panics and returns nothing.
C30_TilesRightUnlessEmpty ==
    TilesCalled =>
        /\ call.stage = "panicked" => call.points = <<>>
        /\ call.stage \in {"spawned", "done"} => call.points # <<>>
        /\ call.stage = "done" => TilesRight
        /\ call.mutex # 0 => call.workers[call.mutex].pc = "merge"

\* C30 witness: five threads have merged the nine points of two zoom levels,
\* the last chunk first, into tiles that hold points of several chunks.
C30_Witness ==
    /\ TilesCalled
    /\ call.stage = "done"
    /\ call.points = LongTileInput
    /\ call.min_zoom = 0 /\ call.max_zoom = 1
    /\ Len(call.workers) = 5
    /\ Cardinality(TilesOfZoom(1)) >= 2
    /\ \E k \in TilesOfZoom(0) :
          /\ Len(call.result[k][2].points) = num_threads + 1
          /\ call.result[k][2].points[1] = LongTileInput[num_threads + 1]

\* The empty cloud: chunk_size is 0 and chunks(0) panics.
C30_EmptyCloudWitness ==
    /\ TilesCalled
    /\ call.stage = "panicked"
    /\ call.points = <<>>


====
